---- MODULE Spec2Model ----
(***************************************************************************)
(* Terminal UI orchestration layer of 29thfloor-astro:                     *)
(*   <terminal-tui>     src/src/components/terminal-tui.js                 *)
(*   <terminal-output>  src/unnamed/part_001                               *)
(*   <terminal-prompt>  src/unnamed/part_002 (lines 1-270)                 *)
(*   <terminal-menu>    src/unnamed/part_002 (lines 272-599)               *)
(* and the paging loops of the WordPress client src/src/lib/api.ts.        *)
(*                                                                         *)
(* The page is one record ("world") holding the fields of the four         *)
(* components, the DOM properties the code reads and writes, the per-tab   *)
(* sessionStorage and, while one event is handled, the list of its effects.*)
(* Every method is an operator from world to world, composed in the order  *)
(* of the statements of the source; an action applies one whole handler.   *)
(*                                                                         *)
(* Texts are sequences of chunks (strings); text typed by the user is one  *)
(* chunk per character.  Lengths are kept in half pixels (Px(n) = 2n) so   *)
(* that innerHeight * 0.5 is exact.                                        *)
(***************************************************************************)
EXTENDS Integers, Sequences, FiniteSets, TLC

VARIABLES
  menuVisible,     \* TerminalTUI._menuVisible
  consoleHidden,   \* TerminalTUI._consoleHidden
  consoleHeight,   \* TerminalTUI._consoleHeight (half pixels)
  isResizing,      \* TerminalTUI._isResizing
  menuDisplay,     \* <terminal-menu>.style.display
  promptDisplay,   \* <terminal-prompt>.style.display
  trayHeight,      \* #console-tray.style.height (half pixels)
  trayHidden,      \* #console-tray.classList contains 'hidden'
  handleDisplay,   \* #resize-handle.style.display
  log,             \* children of .output-container of <terminal-output>
  session,         \* sessionStorage of the tab
  value,           \* .prompt-input.value
  historyIndex,    \* TerminalPrompt._historyIndex
  commandHistory,  \* TerminalPrompt._commandHistory
  items,           \* TerminalMenu._items
  selectedIndex,   \* TerminalMenu._selectedIndex
  itemsAttr,       \* attribute 'items' of <terminal-menu>
  selectedAttr,    \* attribute 'selected' of <terminal-menu>
  innerHeight,     \* window.innerHeight (pixels)
  pageTitle,       \* attribute 'page-title' of <terminal-tui>
  scrollRequested, \* callbacks of requestAnimationFrame wait for the next frame
  scrolledTo,      \* entries above the bottom edge of .output-container's view
  listeners,       \* listeners of <terminal-tui> that are registered
  isConnected,     \* <terminal-tui>.isConnected
  api              \* the call of a function of src/src/lib/api.ts in progress

vars == <<menuVisible, consoleHidden, consoleHeight, isResizing, menuDisplay,
          promptDisplay, trayHeight, trayHidden, handleDisplay, log, session,
          value, historyIndex, commandHistory, items, selectedIndex, itemsAttr,
          selectedAttr, innerHeight, pageTitle, scrollRequested, scrolledTo,
          listeners, isConnected, api>>

\* The page as one record.
Cur ==
  [menuVisible |-> menuVisible, consoleHidden |-> consoleHidden,
   consoleHeight |-> consoleHeight, isResizing |-> isResizing,
   menuDisplay |-> menuDisplay, promptDisplay |-> promptDisplay,
   trayHeight |-> trayHeight, trayHidden |-> trayHidden,
   handleDisplay |-> handleDisplay, log |-> log,
   session |-> session, value |-> value, historyIndex |-> historyIndex,
   commandHistory |-> commandHistory, items |-> items,
   selectedIndex |-> selectedIndex, itemsAttr |-> itemsAttr,
   selectedAttr |-> selectedAttr, innerHeight |-> innerHeight,
   pageTitle |-> pageTitle, scrollRequested |-> scrollRequested,
   scrolledTo |-> scrolledTo, listeners |-> listeners,
   isConnected |-> isConnected, effects |-> <<>>]

Apply(w) ==
  /\ menuVisible' = w.menuVisible
  /\ consoleHidden' = w.consoleHidden
  /\ consoleHeight' = w.consoleHeight
  /\ isResizing' = w.isResizing
  /\ menuDisplay' = w.menuDisplay
  /\ promptDisplay' = w.promptDisplay
  /\ trayHeight' = w.trayHeight
  /\ trayHidden' = w.trayHidden
  /\ handleDisplay' = w.handleDisplay
  /\ log' = w.log
  /\ session' = w.session
  /\ value' = w.value
  /\ historyIndex' = w.historyIndex
  /\ commandHistory' = w.commandHistory
  /\ items' = w.items
  /\ selectedIndex' = w.selectedIndex
  /\ itemsAttr' = w.itemsAttr
  /\ selectedAttr' = w.selectedAttr
  /\ innerHeight' = w.innerHeight
  /\ pageTitle' = w.pageTitle
  /\ scrollRequested' = w.scrollRequested
  /\ scrolledTo' = w.scrolledTo
  /\ listeners' = w.listeners
  /\ isConnected' = w.isConnected
  /\ api' = api

\* The field effects of the record lists, in order, what the handling of one
\* event did (entries logged, events dispatched, sessionStorage calls,
\* navigation requests); it starts empty with every event and is no state.
Begin == Cur

Effect(w, e) == [w EXCEPT !.effects = Append(@, e)]

----------------------------------------------------------------------------
(* Bounds of the model *)

MaxHist == 1      \* commands recorded per page
MaxCmds == 2      \* commands recorded per page, where the history is observed
MaxPosts == 200   \* posts of the site that api.ts reads
MaxLog == 5       \* entries of the Output Log, where scripts append

----------------------------------------------------------------------------
(* Text *)

Px(n) == 2 * n

Min(a, b) == IF a < b THEN a ELSE b
Max(a, b) == IF a > b THEN a ELSE b

RECURSIVE Str(_)
Str(cs) == IF cs = <<>> THEN "" ELSE Head(cs) \o Str(Tail(cs))

UpperCase == <<"A","B","C","D","E","F","G","H","I","J","K","L","M",
               "N","O","P","Q","R","S","T","U","V","W","X","Y","Z">>
LowerCase == <<"a","b","c","d","e","f","g","h","i","j","k","l","m",
               "n","o","p","q","r","s","t","u","v","w","x","y","z">>

\* String.prototype.toLowerCase, one character
LowerChar(c) ==
  IF \E i \in 1..26 : UpperCase[i] = c
  THEN LowerCase[CHOOSE i \in 1..26 : UpperCase[i] = c]
  ELSE c

\* mutant: the text is left as it was typed
toLowerCase_asTyped(cs) == cs

\* String.prototype.toLowerCase
toLowerCase(cs) == [i \in 1..Len(cs) |-> LowerChar(cs[i])]

WhiteSpace == {" ", "\t"}

RECURSIVE TrimStart(_)
TrimStart(cs) ==
  IF cs # <<>> /\ Head(cs) \in WhiteSpace THEN TrimStart(Tail(cs)) ELSE cs

RECURSIVE TrimEnd(_)
TrimEnd(cs) ==
  IF cs # <<>> /\ cs[Len(cs)] \in WhiteSpace
  THEN TrimEnd(SubSeq(cs, 1, Len(cs) - 1)) ELSE cs

\* String.prototype.trim
trim(cs) == TrimEnd(TrimStart(cs))

----------------------------------------------------------------------------
(* JavaScript values *)

\* an integer n as a JavaScript value; NaN stands for whatever parseInt does
\* not read as a number (null, "abc")
Num(n) == <<n>>
NaN == <<>>

\* the number m * 10^e, 1 <= m <= 9 and e >= 21, which String() writes as
\* "me+e"; and the number Infinity, which String() writes as "Infinity"
Big(m, e) == <<m, e>>
Infinity == <<1, 0, 0>>

\* parseInt(val, 10) || 0: parseInt reads the leading digits of String(val)
parseIntOr0(val) ==
  CASE Len(val) = 1 -> val[1]
    [] Len(val) = 2 -> val[1]
    [] OTHER -> 0

Undefined == [undefined |-> TRUE]
IsUndefined(x) == "undefined" \in DOMAIN x

----------------------------------------------------------------------------
(* <terminal-output> *)

\* TerminalOutput.escapeHtml: textContent written, innerHTML read back
escapeHtml(text) ==
  [i \in 1..Len(text) |->
     CASE text[i] = "&" -> "&amp;"
       [] text[i] = "<" -> "&lt;"
       [] text[i] = ">" -> "&gt;"
       [] OTHER -> text[i]]

\* entry.innerHTML = content: character references become characters, a
\* bare "<" opens a tag
parseHtml(html) ==
  [i \in 1..Len(html) |->
     CASE html[i] = "&amp;" -> "&"
       [] html[i] = "&lt;" -> "<"
       [] html[i] = "&gt;" -> ">"
       [] OTHER -> html[i]]

hasMarkup(html) == \E i \in 1..Len(html) : html[i] = "<"

\* TerminalOutput.scrollToBottom: the scroll is left to a callback of
\* requestAnimationFrame
scrollToBottom(w) == [w EXCEPT !.scrollRequested = TRUE]

\* the callback of scrollToBottom: container.scrollTop = container.scrollHeight
scrollCallback(w) ==
  [w EXCEPT !.scrolledTo = Len(w.log), !.scrollRequested = FALSE]

\* mutant: the new entry is put before the others
append_first(w, content, type) ==
  LET entry == [content |-> Str(parseHtml(content)),
                markup |-> hasMarkup(content), type |-> type]
  IN scrollToBottom(
       Effect([w EXCEPT !.log = <<entry>> \o @],
              [op |-> "log", content |-> entry.content, type |-> type]))

\* TerminalOutput.append (content a string)
append(w, content, type) ==
  LET entry == [content |-> Str(parseHtml(content)),
                markup |-> hasMarkup(content), type |-> type]
  IN scrollToBottom(
       Effect([w EXCEPT !.log = Append(@, entry)],
              [op |-> "log", content |-> entry.content, type |-> type]))

\* TerminalOutput.appendLine
appendLine(w, text, type) == append(w, escapeHtml(text), type)

\* TerminalOutput.clear
clear(w) ==
  Effect([w EXCEPT !.log = <<>>, !.scrolledTo = 0], [op |-> "clear"])

----------------------------------------------------------------------------
(* sessionStorage *)

StoreKeys == {"tui-visited", "tui-history", "tui-session"}

getItem(w, key) == Effect(w, [op |-> "getItem", key |-> key])

setItem(w, key, val) ==
  Effect([w EXCEPT !.session[key] = val], [op |-> "setItem", key |-> key])

removeItem(w, key) ==
  Effect([w EXCEPT !.session[key] = "null"], [op |-> "removeItem", key |-> key])

----------------------------------------------------------------------------
(* <terminal-tui>: configuration *)

\* TerminalTUI.navigationItems
navigationItems ==
  << [label |-> "Home", path |-> "/"],
     [label |-> "Blog", path |-> "/blog"],
     [label |-> "Projects", path |-> "/projects"],
     [label |-> "Work", path |-> "/work"],
     [label |-> "About", path |-> "/about"],
     [label |-> "Contact", path |-> "/contact"],
     [label |-> "Archive", path |-> "/archive"] >>

\* TerminalTUI.commands: the direct navigation keywords
navigationCommands ==
  [home |-> "/", blog |-> "/blog", projects |-> "/projects", work |-> "/work",
   about |-> "/about", contact |-> "/contact", archive |-> "/archive",
   everyday |-> "/everyday"]

\* TerminalTUI.commands[cmd]: the own properties of the object literal, then
\* the properties it inherits from Object.prototype (the keys are lower case)
commands(cmd) ==
  CASE cmd = "menu" -> [call |-> "showMenu"]
    [] cmd = "help" -> [call |-> "showHelp"]
    [] cmd = "clear" -> [call |-> "clearOutput"]
    [] cmd \in DOMAIN navigationCommands ->
         [call |-> "navigate", path |-> navigationCommands[cmd]]
    [] cmd = "constructor" -> [call |-> "Object"]
    [] cmd = "__proto__" -> [call |-> "notAFunction"]
    [] OTHER -> [call |-> "undefined"]

\* TerminalTUI.shortcuts
shortcuts ==
  [h |-> "/", b |-> "/blog", w |-> "/work", e |-> "/everyday",
   a |-> "/about", c |-> "/contact"]

----------------------------------------------------------------------------
(* <terminal-tui>: methods *)

\* mutant: the content is appended as HTML
appendOutput_asHtml(w, content, type) == append(w, content, type)

\* TerminalTUI.appendOutput
appendOutput(w, content, type) == appendLine(w, content, type)

\* TerminalTUI.showMenu
showMenu(w) ==
  IF w.menuVisible THEN w
  ELSE [w EXCEPT !.menuVisible = TRUE, !.menuDisplay = "block",
                 !.promptDisplay = "none"]

\* mutant: the prompt is not shown again
hideMenu_promptStaysHidden(w) ==
  [w EXCEPT !.menuVisible = FALSE, !.menuDisplay = "none"]

\* TerminalTUI.hideMenu
hideMenu(w) ==
  [w EXCEPT !.menuVisible = FALSE, !.menuDisplay = "none",
            !.promptDisplay = "block"]

\* mutant: saveSession leaves the store as it is
saveSession_writesNothing(w) == w

\* TerminalTUI.saveSession
saveSession(w) == setItem(w, "tui-session", "active")

\* mutant: every request goes to the root of the site
navigate_toRoot(w, path) ==
  LET w1 == saveSession(w)
  IN Effect(w1, [op |-> "navigate", path |-> "/",
                 menuVisible |-> w1.menuVisible, logged |-> Len(w1.log)])

\* TerminalTUI.navigate: window.location.href = path
navigate(w, path) ==
  LET w1 == saveSession(w)
  IN Effect(w1, [op |-> "navigate", path |-> path,
                 menuVisible |-> w1.menuVisible, logged |-> Len(w1.log)])

\* TerminalTUI.showError
showError(w, message) == appendOutput(w, message, "error")

\* TerminalTUI.showHelp
showHelp(w) ==
  LET w1 == appendOutput(w, <<"Available commands:">>, "system")
      w2 == appendOutput(w1, <<"  menu     - Show navigation menu">>, "system")
      w3 == appendOutput(w2, <<"  help     - Show this help message">>, "system")
      w4 == appendOutput(w3, <<"  clear    - Clear screen">>, "system")
      w5 == appendOutput(w4, <<>>, "system")
      w6 == appendOutput(w5, <<"Direct navigation:">>, "system")
      w7 == appendOutput(w6,
              <<"  home, blog, projects, work, everyday, about, contact, archive">>,
              "system")
      w8 == appendOutput(w7, <<>>, "system")
      w9 == appendOutput(w8, <<"Keyboard shortcuts:">>, "system")
  IN appendOutput(w9, <<"  [H]ome [B]log [W]ork [E]veryday [A]bout [C]ontact">>,
                  "system")

\* mutant: the key removed is the one the first-visit check reads
clearOutput_removesVisited(w) == removeItem(clear(w), "tui-visited")

\* TerminalTUI.clearOutput
clearOutput(w) == removeItem(clear(w), "tui-history")

\* TerminalTUI.loadSession
loadSession(w) == "null"

\* TerminalTUI.showWelcome
showWelcome(w) ==
  LET w1 == appendOutput(w, <<"Welcome to 29thfloor.com">>, "system")
      w2 == appendOutput(w1,
              <<"Type \"menu\" to navigate or \"help\" for commands.">>, "system")
      w3 == appendOutput(w2, <<>>, "system")
  IN appendOutput(w3, <<"Connected to ", w.pageTitle>>, "system")

\* mutant: the welcome is shown without setting the flag
showInitialContent_flagNotSet(w) ==
  LET isFirstVisit == w.session["tui-visited"] = "null"
      w1 == getItem(w, "tui-visited")
  IN IF isFirstVisit THEN showWelcome(w1)
     ELSE appendOutput(w1, <<"Connected to ", w.pageTitle>>, "system")

\* TerminalTUI.showInitialContent
showInitialContent(w) ==
  LET isFirstVisit == w.session["tui-visited"] = "null"
      w1 == getItem(w, "tui-visited")
      savedHistory == loadSession(w1)
  IN IF savedHistory # "null" /\ Len(savedHistory) > 0
     THEN appendOutput(w1, <<"Connected to ", w.pageTitle>>, "system")
     ELSE IF isFirstVisit
     THEN setItem(showWelcome(w1), "tui-visited", "true")
     ELSE appendOutput(w1, <<"Connected to ", w.pageTitle>>, "system")

\* mutant: the keyword is looked up as typed
executeCommand_caseSensitive(w, command) ==
  LET cmd == Str(trim(command))
      handler == commands(cmd)
  IN CASE handler.call = "showMenu" -> showMenu(w)
       [] handler.call = "showHelp" -> showHelp(w)
       [] handler.call = "clearOutput" -> clearOutput(w)
       [] handler.call = "navigate" -> navigate(w, handler.path)
       [] handler.call = "Object" -> w
       [] handler.call = "notAFunction" -> Effect(w, [op |-> "throw"])
       [] OTHER ->
            appendOutput(showError(w, <<"Unknown command: ">> \o command),
                         <<"Type \"help\" for available commands.">>, "system")

\* TerminalTUI.executeCommand
executeCommand(w, command) ==
  LET cmd == Str(trim(toLowerCase(command)))
      handler == commands(cmd)
  IN CASE handler.call = "showMenu" -> showMenu(w)
       [] handler.call = "showHelp" -> showHelp(w)
       [] handler.call = "clearOutput" -> clearOutput(w)
       [] handler.call = "navigate" -> navigate(w, handler.path)
       [] handler.call = "Object" -> w
       [] handler.call = "notAFunction" -> Effect(w, [op |-> "throw"])
       [] OTHER ->
            appendOutput(showError(w, <<"Unknown command: ">> \o command),
                         <<"Type \"help\" for available commands.">>, "system")

\* mutant: the command is not echoed
promptHandler_noEcho(w, command) == executeCommand(w, command)

\* TerminalTUI._promptHandler
promptHandler(w, command) ==
  executeCommand(appendOutput(w, command, "command"), command)

\* mutant: the navigation request is issued before the status entry
menuConfirmHandler_navigatesFirst(w, item) ==
  LET w1 == hideMenu(w)
  IN IF IsUndefined(item) THEN Effect(w1, [op |-> "throw"])
     ELSE appendOutput(navigate(w1, item.path),
                       <<"Navigating to ", item.label, "...">>, "system")

\* TerminalTUI._menuConfirmHandler; item.label of an undefined item throws
menuConfirmHandler(w, item) ==
  LET w1 == hideMenu(w)
  IN IF IsUndefined(item) THEN Effect(w1, [op |-> "throw"])
     ELSE navigate(appendOutput(w1, <<"Navigating to ", item.label, "...">>,
                                "system"),
                   item.path)

\* mutant: Escape is handled as a cancel in either mode
escapeHandler_anyMode(w, key) ==
  IF key = "Escape"
  THEN appendOutput(hideMenu(w), <<"Menu cancelled.">>, "system")
  ELSE w

\* TerminalTUI._escapeHandler
escapeHandler(w, key) ==
  IF key = "Escape" /\ w.menuVisible
  THEN appendOutput(hideMenu(w), <<"Menu cancelled.">>, "system")
  ELSE w

\* mutant: the shortcut is not suppressed while the menu is shown
shortcutHandler_inMenu(w, key, isTyping, mods) ==
  IF isTyping THEN w
  ELSE IF mods.ctrlKey \/ mods.metaKey \/ mods.altKey THEN w
  ELSE LET k == Str(toLowerCase(<<key>>))
       IN IF k \in DOMAIN shortcuts THEN navigate(w, shortcuts[k]) ELSE w

\* TerminalTUI._shortcutHandler
shortcutHandler(w, key, isTyping, mods) ==
  IF isTyping THEN w
  ELSE IF mods.ctrlKey \/ mods.metaKey \/ mods.altKey THEN w
  ELSE IF w.menuVisible THEN w
  ELSE LET k == Str(toLowerCase(<<key>>))
       IN IF k \in DOMAIN shortcuts THEN navigate(w, shortcuts[k]) ELSE w

----------------------------------------------------------------------------
(* <terminal-tui>: console tray *)

minHeight == 48

\* TerminalTUI._resizeMouseDown
resizeMouseDown(w) == [w EXCEPT !.isResizing = TRUE]

\* mutant: the new height is not clamped
resizeMouseMove_unclamped(w, bottom, clientY) ==
  IF ~w.isResizing THEN w
  ELSE [w EXCEPT !.trayHeight = Px(bottom - clientY),
                 !.consoleHeight = Px(bottom - clientY)]

\* TerminalTUI._resizeMouseMove; bottom is getBoundingClientRect().bottom
resizeMouseMove(w, bottom, clientY) ==
  IF ~w.isResizing THEN w
  ELSE LET newHeight == Px(bottom - clientY)
           maxHeight == w.innerHeight   \* window.innerHeight * 0.5, in half pixels
           clampedHeight == Max(Px(minHeight), Min(maxHeight, newHeight))
       IN [w EXCEPT !.trayHeight = clampedHeight,
                    !.consoleHeight = clampedHeight]

\* mutant: the release leaves the dragging flag set
resizeMouseUp_keepsDragging(w) == w

\* TerminalTUI._resizeMouseUp
resizeMouseUp(w) == IF w.isResizing THEN [w EXCEPT !.isResizing = FALSE] ELSE w

\* .console-tray: the height the style sheet gives the box (border box, half
\* pixels): height limited by max-height: 50vh, then by min-height: 48px, plus
\* border-top: 1px; with class hidden, height 0 and no border
usedHeight(w) ==
  IF w.trayHidden THEN 0
  ELSE Max(Px(minHeight), Min(w.innerHeight, w.trayHeight)) + Px(1)

\* #console-tray.offsetHeight: the used height as an integer number of pixels;
\* a half pixel goes either way
offsetHeights(w) ==
  LET h == usedHeight(w)
  IN IF h % 2 = 0 THEN {h} ELSE {h - 1, h + 1}

\* mutant: the event carries the value that consoleHidden had before the call
toggleConsole_staleEvent(w, offsetHeight) ==
  LET w1 == IF w.consoleHidden
            THEN [w EXCEPT !.trayHidden = FALSE, !.handleDisplay = "",
                           !.trayHeight = w.consoleHeight,
                           !.consoleHidden = FALSE]
            ELSE [w EXCEPT !.consoleHeight = offsetHeight,
                           !.trayHidden = TRUE, !.handleDisplay = "none",
                           !.consoleHidden = TRUE]
      w2 == Effect(w1, [op |-> "dispatch", name |-> "console:toggle",
                        hidden |-> w.consoleHidden])
  IN Effect(w2, [op |-> "return", value |-> ~w2.consoleHidden])

\* TerminalTUI.toggleConsole
toggleConsole(w, offsetHeight) ==
  LET w1 == IF w.consoleHidden
            THEN [w EXCEPT !.trayHidden = FALSE, !.handleDisplay = "",
                           !.trayHeight = w.consoleHeight,
                           !.consoleHidden = FALSE]
            ELSE [w EXCEPT !.consoleHeight = offsetHeight,
                           !.trayHidden = TRUE, !.handleDisplay = "none",
                           !.consoleHidden = TRUE]
      w2 == Effect(w1, [op |-> "dispatch", name |-> "console:toggle",
                        hidden |-> w1.consoleHidden])
  IN Effect(w2, [op |-> "return", value |-> ~w2.consoleHidden])

----------------------------------------------------------------------------
(* <terminal-prompt> *)

\* mutant: clear resets the cursor and leaves the field as it is
promptClear_keepsField(w) == [w EXCEPT !.historyIndex = -1]

\* TerminalPrompt.clear
promptClear(w) == [w EXCEPT !.value = <<>>, !.historyIndex = -1]

\* mutant: the command is submitted whether it is empty or not
submit_emptyToo(w) ==
  LET command == trim(w.value)
      w1 == [w EXCEPT !.commandHistory = Append(@, command),
                      !.historyIndex = Len(w.commandHistory) + 1]
      w2 == Effect(w1, [op |-> "dispatch", name |-> "prompt:submit",
                        command |-> command])
  IN promptClear(promptHandler(w2, command))

\* TerminalPrompt.submit; the prompt:submit event runs the listener of
\* <terminal-tui> before dispatchEvent returns
submit(w) ==
  LET command == trim(w.value)
      w1 == [w EXCEPT !.commandHistory = Append(@, command),
                      !.historyIndex = Len(w.commandHistory) + 1]
      w2 == Effect(w1, [op |-> "dispatch", name |-> "prompt:submit",
                        command |-> command])
  IN promptClear(IF command # <<>>
                 THEN IF "prompt:submit" \in w.listeners
                      THEN promptHandler(w2, command) ELSE w2
                 ELSE w)

\* mutant: past the newest entry the cursor keeps moving
navigateHistory_notParked(w, direction) ==
  IF Len(w.commandHistory) = 0 THEN w
  ELSE LET newIndex == w.historyIndex + direction
       IN IF newIndex >= 0 /\ newIndex < Len(w.commandHistory)
          THEN [w EXCEPT !.historyIndex = newIndex,
                         !.value = w.commandHistory[newIndex + 1]]
          ELSE IF newIndex >= Len(w.commandHistory)
          THEN [w EXCEPT !.historyIndex = newIndex, !.value = <<>>]
          ELSE w

\* mutant: before the oldest entry the cursor keeps moving
navigateHistory_belowOldest(w, direction) ==
  IF Len(w.commandHistory) = 0 THEN w
  ELSE LET newIndex == w.historyIndex + direction
       IN IF newIndex >= 0 /\ newIndex < Len(w.commandHistory)
          THEN [w EXCEPT !.historyIndex = newIndex,
                         !.value = w.commandHistory[newIndex + 1]]
          ELSE IF newIndex >= Len(w.commandHistory)
          THEN [w EXCEPT !.historyIndex = Len(w.commandHistory),
                         !.value = <<>>]
          ELSE [w EXCEPT !.historyIndex = newIndex]

\* TerminalPrompt.navigateHistory
navigateHistory(w, direction) ==
  IF Len(w.commandHistory) = 0 THEN w
  ELSE LET newIndex == w.historyIndex + direction
       IN IF newIndex >= 0 /\ newIndex < Len(w.commandHistory)
          THEN [w EXCEPT !.historyIndex = newIndex,
                         !.value = w.commandHistory[newIndex + 1]]
          ELSE IF newIndex >= Len(w.commandHistory)
          THEN [w EXCEPT !.historyIndex = Len(w.commandHistory),
                         !.value = <<>>]
          ELSE w

\* mutant: Escape empties the field and leaves the cursor where it is
promptHandleKeydown_escapeKeepsCursor(w, key) ==
  CASE key = "Enter" -> submit(w)
    [] key = "Escape" -> [w EXCEPT !.value = <<>>]
    [] key = "ArrowUp" -> navigateHistory(w, -1)
    [] key = "ArrowDown" -> navigateHistory(w, 1)
    [] OTHER -> w

\* TerminalPrompt.handleKeydown
promptHandleKeydown(w, key) ==
  CASE key = "Enter" -> submit(w)
    [] key = "Escape" -> promptClear(w)
    [] key = "ArrowUp" -> navigateHistory(w, -1)
    [] key = "ArrowDown" -> navigateHistory(w, 1)
    [] OTHER -> w

\* TerminalPrompt.handleInput, after the field took the text
handleInput(w, text) ==
  Effect([w EXCEPT !.value = text],
         [op |-> "dispatch", name |-> "prompt:change", value |-> text])

----------------------------------------------------------------------------
(* <terminal-menu> *)

\* this._items[i]
itemAt(w, i) ==
  IF i >= 0 /\ i < Len(w.items) THEN w.items[i + 1] ELSE Undefined

\* TerminalMenu.selected (setter)
selected(w, val) ==
  LET index == parseIntOr0(val)
  IN IF index >= 0 /\ index < Len(w.items) /\ index # w.selectedIndex
     THEN Effect([w EXCEPT !.selectedIndex = index],
                 [op |-> "dispatch", name |-> "menu:select", index |-> index,
                  item |-> w.items[index + 1]])
     ELSE w

\* mutant: past the last item the selection wraps to the first
selectNext_wraps(w) ==
  IF w.selectedIndex < Len(w.items) - 1
  THEN selected(w, Num(w.selectedIndex + 1)) ELSE selected(w, Num(0))

\* TerminalMenu.selectNext
selectNext(w) ==
  IF w.selectedIndex < Len(w.items) - 1
  THEN selected(w, Num(w.selectedIndex + 1)) ELSE w

\* TerminalMenu.selectPrev
selectPrev(w) ==
  IF w.selectedIndex > 0 THEN selected(w, Num(w.selectedIndex - 1)) ELSE w

\* mutant: confirm dispatches whether or not there are items
confirm_unguarded(w) ==
  LET item == itemAt(w, w.selectedIndex)
  IN menuConfirmHandler(
       Effect(w, [op |-> "dispatch", name |-> "menu:confirm",
                  index |-> w.selectedIndex, item |-> item]),
       item)

\* TerminalMenu.confirm; the menu:confirm event runs the listener of
\* <terminal-tui> before dispatchEvent returns
confirm(w) ==
  IF Len(w.items) > 0
  THEN LET item == itemAt(w, w.selectedIndex)
           w1 == Effect(w, [op |-> "dispatch", name |-> "menu:confirm",
                            index |-> w.selectedIndex, item |-> item])
       IN IF "menu:confirm" \in w.listeners
          THEN menuConfirmHandler(w1, item) ELSE w1
  ELSE w

\* the value of the 'items' attribute: JSON.stringify of a list, text that
\* JSON.parse rejects, or no attribute
jsonStringify(list) == [kind |-> "json", list |-> list]
invalidJson == [kind |-> "invalid"]
noAttr == [kind |-> "null"]

\* TerminalMenu.parseItems
parseItems(w) ==
  LET w1 == CASE w.itemsAttr.kind = "json" -> [w EXCEPT !.items = w.itemsAttr.list]
              [] w.itemsAttr.kind = "invalid" ->
                   Effect([w EXCEPT !.items = <<>>],
                          [op |-> "console.error",
                           message |-> "terminal-menu: Invalid items JSON"])
              [] OTHER -> w
  IN [w1 EXCEPT !.selectedIndex =
        Min(Max(0, parseIntOr0(w.selectedAttr)), Max(0, Len(w1.items) - 1))]

\* TerminalMenu.constructor and connectedCallback of a <terminal-menu> whose
\* items attribute holds text that JSON.parse rejects
inertMenu(w, selectedValue) ==
  parseItems([w EXCEPT !.itemsAttr = invalidJson, !.items = <<>>,
                       !.selectedIndex = 0, !.selectedAttr = selectedValue])

\* TerminalMenu.attributeChangedCallback for 'items', after setAttribute
itemsAttributeChanged(w, newValue) ==
  IF w.itemsAttr # newValue
  THEN parseItems([w EXCEPT !.itemsAttr = newValue])
  ELSE w

\* TerminalMenu.attributeChangedCallback for 'selected', after setAttribute
selectedAttributeChanged(w, newValue) ==
  IF w.selectedAttr # newValue
  THEN [w EXCEPT !.selectedAttr = newValue,
                 !.selectedIndex = parseIntOr0(newValue)]
  ELSE w

\* TerminalMenu.items (setter), val an array
itemsSet(w, val) == [w EXCEPT !.items = val]

\* mutant: the menu also confirms on w, a letter that is a shortcut
menuHandleKeydown_confirmsOnLetter(w, key) ==
  CASE key \in {"ArrowUp", "k"} -> selectPrev(w)
    [] key \in {"ArrowDown", "j"} -> selectNext(w)
    [] key \in {"Enter", " ", "w"} -> confirm(w)
    [] key = "Home" -> selected(w, Num(0))
    [] key = "End" -> selected(w, Num(Len(w.items) - 1))
    [] OTHER -> w

\* TerminalMenu.handleKeydown
menuHandleKeydown(w, key) ==
  CASE key \in {"ArrowUp", "k"} -> selectPrev(w)
    [] key \in {"ArrowDown", "j"} -> selectNext(w)
    [] key \in {"Enter", " "} -> confirm(w)
    [] key = "Home" -> selected(w, Num(0))
    [] key = "End" -> selected(w, Num(Len(w.items) - 1))
    [] OTHER -> w

\* TerminalMenu._clickHandler on the item rendered with data-index = index
clickHandler(w, index) == confirm(selected(w, Num(index)))

\* mutant: a hover activates the item as a click does
hoverHandler_confirms(w, index) == confirm(selected(w, Num(index)))

\* TerminalMenu._hoverHandler on the item rendered with data-index = index
hoverHandler(w, index) == selected(w, Num(index))

----------------------------------------------------------------------------
(* Construction of a page *)

\* TerminalTUI.constructor, in a tab whose sessionStorage is store
constructor(title, height, store) ==
  [menuVisible |-> FALSE, consoleHidden |-> FALSE, consoleHeight |-> Px(120),
   isResizing |-> FALSE, menuDisplay |-> "none", promptDisplay |-> "",
   trayHeight |-> Px(120), trayHidden |-> FALSE, handleDisplay |-> "",
   log |-> <<>>, session |-> store, value |-> <<>>, historyIndex |-> -1,
   commandHistory |-> <<>>, items |-> <<>>, selectedIndex |-> 0,
   itemsAttr |-> noAttr, selectedAttr |-> NaN, innerHeight |-> height,
   pageTitle |-> title, scrollRequested |-> FALSE, scrolledTo |-> 0,
   listeners |-> {}, isConnected |-> FALSE, effects |-> <<>>]

\* TerminalTUI.render: new children in the shadow root; <terminal-menu> is
\* connected with its items attribute (TerminalMenu.connectedCallback)
render(w) ==
  parseItems(
    [w EXCEPT !.menuDisplay = "none", !.promptDisplay = "",
              !.trayHeight = w.consoleHeight, !.trayHidden = FALSE,
              !.handleDisplay = "", !.log = <<>>, !.scrolledTo = 0,
              !.value = <<>>,
              !.historyIndex = -1, !.commandHistory = <<>>, !.items = <<>>,
              !.selectedIndex = 0,
              !.itemsAttr = jsonStringify(navigationItems),
              !.selectedAttr = NaN])

\* the listeners that TerminalTUI.setupEventListeners registers: on the
\* shadow root, on <terminal-tui>, on the resize handle and on the document
Listeners ==
  {"prompt:submit", "menu:confirm", "keydown", "document.keydown",
   "mousedown", "document.mousemove", "document.mouseup"}

\* TerminalTUI.setupEventListeners
setupEventListeners(w) == [w EXCEPT !.listeners = @ \cup Listeners]

\* TerminalTUI.connectedCallback, called when <terminal-tui> is inserted into
\* the document
connectedCallback(w) ==
  showInitialContent(setupEventListeners(render([w EXCEPT !.isConnected = TRUE])))

\* mutant: the listeners on the document stay registered
cleanup_keepsDocumentListeners(w) ==
  [w EXCEPT !.listeners =
     @ \ {"prompt:submit", "menu:confirm", "keydown", "mousedown"}]

\* TerminalTUI.cleanup
cleanup(w) == [w EXCEPT !.listeners = @ \ Listeners]

\* TerminalTUI.disconnectedCallback, called when <terminal-tui> is removed
\* from the document
disconnectedCallback(w) == cleanup([w EXCEPT !.isConnected = FALSE])

----------------------------------------------------------------------------
(* Inputs *)

PageTitles == {"HOME", "BLOG"}

\* window.innerHeight: below twice minHeight, odd, even
InnerHeights == {90, 243, 244}

\* clientY of a pointer move: above the viewport, inside the tray's range,
\* below the viewport
ClientYs == {-10, 140, 300}

\* texts typed into the prompt
TypedTexts ==
  { <<>>, <<" ", " ">>,
    <<"m","e","n","u">>, <<" ","M","E","N","U"," ">>,
    <<"h","e","l","p">>, <<"c","l","e","a","r">>,
    <<"w","o","r","k">>, <<"x","y","z">>,
    <<"c","o","n","s","t","r","u","c","t","o","r">>,
    <<"_","_","p","r","o","t","o","_","_">> }

SurfaceTexts == { <<" ","M","e","n","u"," ">>, <<"x","y","z">> }

Keys == {"Enter", "Escape", "ArrowUp", "ArrowDown", "Home", "End", " ",
         "j", "k", "h", "w", "H", "x"}

NoModifier == [ctrlKey |-> FALSE, metaKey |-> FALSE, altKey |-> FALSE,
               shiftKey |-> FALSE]
Modifiers == {NoModifier, [NoModifier EXCEPT !.ctrlKey = TRUE],
              [NoModifier EXCEPT !.metaKey = TRUE],
              [NoModifier EXCEPT !.altKey = TRUE],
              [NoModifier EXCEPT !.shiftKey = TRUE]}

\* where a key press starts: the prompt's <input>, <terminal-menu>, an element
\* of the page inside <terminal-tui>, a text field of the page outside it, or
\* the document body
Targets == {"input", "menu", "content", "textarea", "body"}

FreshStore == [k \in StoreKeys |-> "null"]

----------------------------------------------------------------------------
(* Events *)

(* src/src/lib/api.ts: the loops that fetch every post, 100 to a page *)

\* per_page=100 of the three requests, and the length a full page has
perPage == 100

DecimalDigits == <<"0", "1", "2", "3", "4", "5", "6", "7", "8", "9">>

RECURSIVE Decimal(_)
\* the digits of a number, as a text
Decimal(n) ==
  IF n < 10 THEN <<DecimalDigits[n + 1]>>
  ELSE Decimal(n \div 10) \o <<DecimalDigits[(n % 10) + 1]>>

\* The i-th post of the site, in the order in which WordPress lists the
\* posts.  Some slugs hold a percent-encoded letter and some titles markup,
\* as WordPress renders them; the slugs hold no other escape.
Post(i) ==
  [slug |-> IF i % 7 = 0 THEN <<"%", "C", "3", "%", "A", "9">> \o Decimal(i)
            ELSE <<"p">> \o Decimal(i),
   title |-> [rendered |-> IF i % 5 = 0
                           THEN <<"<", "e", "m", ">">> \o Decimal(i)
                                  \o <<"<", "/", "e", "m", ">">>
                           ELSE <<"T">> \o Decimal(i)]]

RECURSIVE decodeURIComponent(_)
\* decodeURIComponent, on the escapes that the slugs hold
decodeURIComponent(cs) ==
  IF cs = <<>> THEN <<>>
  ELSE IF Len(cs) >= 6 /\ SubSeq(cs, 1, 6) = <<"%", "C", "3", "%", "A", "9">>
  THEN <<"U+00E9">> \o decodeURIComponent(SubSeq(cs, 7, Len(cs)))
  ELSE <<Head(cs)>> \o decodeURIComponent(Tail(cs))

RECURSIVE stripTags(_)
\* text.replace(/<[^>]*>/g, '')
stripTags(cs) ==
  IF cs = <<>> THEN <<>>
  ELSE IF Head(cs) = "<" /\ \E k \in 2..Len(cs) : cs[k] = ">"
  THEN LET close == CHOOSE k \in 2..Len(cs) :
                      /\ cs[k] = ">"
                      /\ \A j \in 2..(k - 1) : cs[j] # ">"
       IN stripTags(SubSeq(cs, close + 1, Len(cs)))
  ELSE <<Head(cs)>> \o stripTags(Tail(cs))

\* the functions that fetch every post
GetAll == {"getAllEverydaySlugs", "getAllEverydayNavInfo", "getAllBlogSlugs"}

\* the route each of them requests
route(fn) == IF fn = "getAllBlogSlugs" THEN "posts" ELSE "everyday"

\* what the callback of posts.map makes of one post
mapPost(fn, p) ==
  CASE fn = "getAllEverydaySlugs" -> p.slug
    [] fn = "getAllEverydayNavInfo" ->
         [slug |-> decodeURIComponent(p.slug),
          title |-> stripTags(p.title.rendered)]
    [] fn = "getAllBlogSlugs" -> decodeURIComponent(p.slug)

\* How the server answers a page that lies after the last post: with an
\* empty list, or as the WordPress REST API does when the collection is not
\* empty, with status 400 and the error object rest_post_invalid_page_number.
Servers == {"emptyList", "WordPress"}

\* await fetch(`...?per_page=100&page=${page}...`) and await res.json(): the
\* parsed body of the answer to the request for a page of a site with total
\* posts
fetchPage(server, total, page) ==
  LET first == (page - 1) * perPage + 1
      last == Min(page * perPage, total)
  IN IF first <= total
     THEN [isArray |-> TRUE,
           elements |-> [i \in 1..(last - first + 1) |-> Post(first + i - 1)]]
     ELSE IF total = 0 \/ server = "emptyList"
     THEN [isArray |-> TRUE, elements |-> <<>>]
     ELSE [isArray |-> FALSE, elements |-> <<>>]

\* no call is in progress
NoCall ==
  [fn |-> "none", server |-> "none", total |-> 0, page |-> 0, hasMore |-> FALSE,
   slugs |-> <<>>, requests |-> <<>>, status |-> "idle"]

\* const slugs = []; let page = 1; let hasMore = true;
callGetAll(a, fn) ==
  [a EXCEPT !.fn = fn, !.page = 1, !.hasMore = TRUE, !.slugs = <<>>,
            !.requests = <<>>, !.status = "running"]

\* One turn of while (hasMore): the request, and then either the push of the
\* mapped posts or, the body being no list, the TypeError of posts.map.
loopBody(a) ==
  LET posts == fetchPage(a.server, a.total, a.page)
      requested == [a EXCEPT !.requests =
                      Append(@, [route |-> route(a.fn), per_page |-> perPage,
                                 page |-> a.page])]
  IN IF ~posts.isArray
     THEN [requested EXCEPT !.status = "threw"]
     ELSE [requested EXCEPT
             !.slugs = @ \o [i \in 1..Len(posts.elements) |->
                               mapPost(a.fn, posts.elements[i])],
             !.hasMore = (Len(posts.elements) = perPage),
             !.page = @ + 1]

\* return slugs;
returnAll(a) == [a EXCEPT !.status = "returned"]

PageState(w) ==
  /\ menuVisible = w.menuVisible
  /\ consoleHidden = w.consoleHidden
  /\ consoleHeight = w.consoleHeight
  /\ isResizing = w.isResizing
  /\ menuDisplay = w.menuDisplay
  /\ promptDisplay = w.promptDisplay
  /\ trayHeight = w.trayHeight
  /\ trayHidden = w.trayHidden
  /\ handleDisplay = w.handleDisplay
  /\ log = w.log
  /\ session = w.session
  /\ value = w.value
  /\ historyIndex = w.historyIndex
  /\ commandHistory = w.commandHistory
  /\ items = w.items
  /\ selectedIndex = w.selectedIndex
  /\ itemsAttr = w.itemsAttr
  /\ selectedAttr = w.selectedAttr
  /\ innerHeight = w.innerHeight
  /\ pageTitle = w.pageTitle
  /\ scrollRequested = w.scrollRequested
  /\ scrolledTo = w.scrolledTo
  /\ listeners = w.listeners
  /\ isConnected = w.isConnected

\* the page in the browser; no function of api.ts runs there
InState(w) ==
  /\ PageState(w)
  /\ api = NoCall

\* the first page of a new tab
FirstPage(titles, heights) ==
  \E title \in titles, height \in heights :
    InState(connectedCallback(constructor(title, height, FreshStore)))

\* the event is handled if its outcome is within the bounds of the model
Step(w) ==
  /\ Len(w.commandHistory) <= MaxHist
  /\ Apply(w)

\* the page is loaded again in the same tab (a navigation or a reload)
LoadPage(titles) ==
  \E title \in titles :
    Step(connectedCallback(constructor(title, innerHeight, session)))

\* the user edits the prompt's field
Type(texts) ==
  /\ promptDisplay # "none"
  /\ \E text \in texts : Step(handleInput(Begin, text))

\* a keydown event: the listener of the target, then the listener of
\* <terminal-tui>, then the listener of the document
keydown(w, target, key, mods) ==
  LET w1 == CASE target = "input" -> promptHandleKeydown(w, key)
              [] target = "menu" -> menuHandleKeydown(w, key)
              [] OTHER -> w
      w2 == IF target \in {"input", "menu", "content"}
               /\ "keydown" \in w.listeners
            THEN escapeHandler(w1, key) ELSE w1
  IN IF "document.keydown" \in w.listeners
     THEN shortcutHandler(w2, key, target \in {"input", "textarea"}, mods)
     ELSE w2

\* an element that is not displayed cannot have the focus
CanTarget(target) ==
  /\ target = "input" => promptDisplay # "none"
  /\ target = "menu" => menuDisplay # "none"

Press(targets, keys, modifiers) ==
  \E target \in targets, key \in keys, mods \in modifiers :
    /\ CanTarget(target)
    /\ Step(keydown(Begin, target, key, mods))

MenuHover ==
  /\ menuDisplay # "none"
  /\ \E index \in 0..(Len(items) - 1) : Step(hoverHandler(Begin, index))

MenuClick ==
  /\ menuDisplay # "none"
  /\ \E index \in 0..(Len(items) - 1) : Step(clickHandler(Begin, index))

\* the mouse events of the resize handle and of the document, delivered to
\* the listeners that are registered
mousedown(w) == IF "mousedown" \in w.listeners THEN resizeMouseDown(w) ELSE w

mousemove(w, bottom, clientY) ==
  IF "document.mousemove" \in w.listeners
  THEN resizeMouseMove(w, bottom, clientY) ELSE w

mouseup(w) == IF "document.mouseup" \in w.listeners THEN resizeMouseUp(w) ELSE w

MouseDown ==
  /\ handleDisplay # "none"
  /\ Step(mousedown(Begin))

\* <terminal-tui> fills the viewport: its bottom edge is at innerHeight
Move(ys) ==
  \E clientY \in ys : Step(mousemove(Begin, innerHeight, clientY))

MouseUp == Step(mouseup(Begin))

ToggleConsole ==
  \E offsetHeight \in offsetHeights(Cur) : Step(toggleConsole(Begin, offsetHeight))

----------------------------------------------------------------------------
(* Spec: every kind of event of the page, few texts *)

Init == FirstPage({"HOME"}, {90})

PageLoad == LoadPage({"HOME"})
TypeText == Type(SurfaceTexts)
\* the keys and targets that act on the surfaces
SurfaceKeys == {"Enter", "Escape", "ArrowUp", "ArrowDown", "End", "h", "x"}
SurfaceTargets == {"input", "menu", "content", "body"}

KeyDown == Press(SurfaceTargets, SurfaceKeys, {NoModifier})
KeyDownModified == Press({"content", "body"}, {"h"}, Modifiers)
MouseMove == Move(ClientYs)

Next ==
  \/ PageLoad
  \/ TypeText
  \/ KeyDown
  \/ KeyDownModified
  \/ MenuHover
  \/ MenuClick
  \/ MouseDown
  \/ MouseMove
  \/ MouseUp
  \/ ToggleConsole

Spec == Init /\ [][Next]_vars

----------------------------------------------------------------------------
(* SpecCommands: the commands typed into the prompt, over page loads *)

InitCommands == FirstPage(PageTitles, {90})

CommandsPageLoad == LoadPage(PageTitles)
CommandsTypeText == Type(TypedTexts)
CommandsKeyDown ==
  Press({"input", "menu", "content"}, {"Enter", "Escape", "ArrowDown"},
        {NoModifier})

NextCommands ==
  \/ CommandsPageLoad
  \/ CommandsTypeText
  \/ CommandsKeyDown

SpecCommands == InitCommands /\ [][NextCommands]_vars

----------------------------------------------------------------------------
(* SpecTray: the console tray in every viewport *)

InitTray == FirstPage({"HOME"}, InnerHeights)

\* the window is resized: 50vh follows window.innerHeight
WindowResize ==
  \E height \in InnerHeights :
    Step([Cur EXCEPT !.innerHeight = height])

NextTray ==
  \/ MouseDown
  \/ MouseMove
  \/ MouseUp
  \/ ToggleConsole
  \/ WindowResize

SpecTray == InitTray /\ [][NextTray]_vars

----------------------------------------------------------------------------
(* SpecMenu: <terminal-menu> used by the page and by scripts *)

\* values given to the selected property and attribute
SelectedValues ==
  {Num(-1), Num(0), Num(2), Num(6), Num(7), NaN, Big(1, 21), Infinity}

\* item lists given to the items property and attribute
ItemLists == {navigationItems, SubSeq(navigationItems, 1, 3)}

\* the first page of a new tab, after the user typed "menu" and pressed Enter
InitMenu ==
  InState(keydown(handleInput(connectedCallback(constructor("HOME", 90, FreshStore)),
                              <<"m","e","n","u">>),
                  "input", "Enter", NoModifier))

MenuPageLoad == LoadPage({"HOME"})
MenuKeyDown ==
  Press({"menu"},
        {"Enter", "Escape", "ArrowUp", "ArrowDown", "Home", "End"},
        {NoModifier})

\* menu.selected = val
SetSelected == \E val \in SelectedValues : Step(selected(Begin, val))

\* menu.setAttribute('selected', val)
SetSelectedAttribute ==
  \E val \in SelectedValues : Step(selectedAttributeChanged(Begin, val))

\* menu.setAttribute('items', JSON.stringify(list))
SetItemsAttribute ==
  \E list \in ItemLists : Step(itemsAttributeChanged(Begin, jsonStringify(list)))

\* menu.items = list
SetItems == \E list \in ItemLists : Step(itemsSet(Begin, list))

NextMenu ==
  \/ MenuPageLoad
  \/ MenuKeyDown
  \/ MenuHover
  \/ MenuClick
  \/ SetSelected
  \/ SetSelectedAttribute
  \/ SetItemsAttribute
  \/ SetItems

SpecMenu == InitMenu /\ [][NextMenu]_vars

----------------------------------------------------------------------------
(* SpecKeys: every key from every target with every modifier *)

InitKeys == FirstPage({"HOME"}, {90})

KeysPageLoad == LoadPage({"HOME"})
KeysTypeText == Type({<<"m","e","n","u">>})
KeysKeyDown == Press(Targets, Keys, Modifiers)

NextKeys ==
  \/ KeysPageLoad
  \/ KeysTypeText
  \/ KeysKeyDown

SpecKeys == InitKeys /\ [][NextKeys]_vars

----------------------------------------------------------------------------
(* SpecLog: <terminal-output> called by scripts *)

\* texts given to appendLine, HTML given to append, and entry types
LogTexts == { <<"o", "k">>, <<"<", "b", ">", "&">> }
LogHtml == { <<"<", "b", ">", "o", "k">> }
LogTypes == {"system", "null"}

InitLog == FirstPage({"HOME"}, {90})

\* the call is made if its outcome is within the bounds of the model
LogStep(w) ==
  /\ Len(w.log) <= MaxLog
  /\ Apply(w)

\* output.appendLine(text, type)
LogAppendLine ==
  \E text \in LogTexts, type \in LogTypes : LogStep(appendLine(Begin, text, type))

\* output.append(html, {type})
LogAppend == \E html \in LogHtml : LogStep(append(Begin, html, "system"))

\* output.clear()
LogClear == LogStep(clear(Begin))

NextLog ==
  \/ LogAppendLine
  \/ LogAppend
  \/ LogClear

SpecLog == InitLog /\ [][NextLog]_vars

----------------------------------------------------------------------------
(* The prompt and its history *)

\* texts typed into the prompt: blank ones, an unknown command with white
\* space around it, a command in upper case, a navigation keyword in mixed
\* case, the command that empties the log, text with markup characters
PromptTexts ==
  { <<>>, <<" ", " ">>, <<" ","x","y","z"," ">>, <<"H","E","L","P">>,
    <<" ","W","o","r","k">>, <<"c","l","e","a","r">>, <<"<","b",">","&">> }

InitPrompt == FirstPage({"HOME"}, {90})

PromptStep(w) ==
  /\ Len(w.commandHistory) <= MaxCmds
  /\ Apply(w)

PromptPageLoad ==
  PromptStep(connectedCallback(constructor("HOME", innerHeight, session)))

PromptTypeText ==
  /\ promptDisplay # "none"
  /\ \E text \in PromptTexts : PromptStep(handleInput(Begin, text))

PromptKeyDown ==
  \E key \in {"Enter", "Escape", "ArrowUp", "ArrowDown"} :
    /\ CanTarget("input")
    /\ PromptStep(keydown(Begin, "input", key, NoModifier))

NextPrompt ==
  \/ PromptPageLoad
  \/ PromptTypeText
  \/ PromptKeyDown

SpecPrompt == InitPrompt /\ [][NextPrompt]_vars

----------------------------------------------------------------------------
(* <terminal-menu> with an unparsable items attribute *)

\* a page whose menu was given an unparsable items attribute, after the
\* user typed "menu" and pressed Enter
InitInert ==
  \E title \in PageTitles, height \in InnerHeights, val \in SelectedValues :
    InState(inertMenu(
              keydown(handleInput(connectedCallback(constructor(title, height,
                                                                FreshStore)),
                                  <<"m","e","n","u">>),
                      "input", "Enter", NoModifier),
              val))

InertTypeText ==
  /\ promptDisplay # "none"
  /\ PromptStep(handleInput(Begin, <<"m","e","n","u">>))

InertKeyDown ==
  \E target \in {"input", "menu"}, key \in Keys :
    /\ CanTarget(target)
    /\ PromptStep(keydown(Begin, target, key, NoModifier))

\* pointer events on the menu's list, at the place of an item of the page's
\* navigation list
InertHover ==
  /\ menuDisplay # "none"
  /\ \E index \in 0..(Len(navigationItems) - 1) : Step(hoverHandler(Begin, index))

InertClick ==
  /\ menuDisplay # "none"
  /\ \E index \in 0..(Len(navigationItems) - 1) : Step(clickHandler(Begin, index))

NextInert ==
  \/ InertTypeText
  \/ InertKeyDown
  \/ InertHover
  \/ InertClick
  \/ SetSelected
  \/ SetSelectedAttribute

SpecInert == InitInert /\ [][NextInert]_vars

----------------------------------------------------------------------------
(* The view of the Output Log *)

InitScroll == FirstPage({"HOME"}, {90})

ScrollTypeText ==
  /\ promptDisplay # "none"
  /\ \E text \in { <<"x","y","z">>, <<"h","e","l","p">>, <<"c","l","e","a","r">> } :
       PromptStep(handleInput(Begin, text))

ScrollKeyDown ==
  \E key \in {"Enter", "Escape", "ArrowUp", "ArrowDown"} :
    /\ CanTarget("input")
    /\ PromptStep(keydown(Begin, "input", key, NoModifier))

\* the browser runs the callbacks of requestAnimationFrame before it renders
\* the next frame; events that arrive before that are handled first
AnimationFrame ==
  /\ scrollRequested
  /\ Apply(scrollCallback(Begin))

NextScroll ==
  \/ ScrollTypeText
  \/ ScrollKeyDown
  \/ AnimationFrame

SpecScroll == InitScroll /\ [][NextScroll]_vars

----------------------------------------------------------------------------
(* <terminal-tui> taken out of the document and put back *)

\* <terminal-tui> is not in the document
Detached == ~isConnected

InitDetach == FirstPage({"HOME"}, {90})

DetachTypeText ==
  /\ ~Detached
  /\ promptDisplay # "none"
  /\ Step(handleInput(Begin, <<"m","e","n","u">>))

\* a key press; the elements of a detached <terminal-tui> cannot have the
\* focus
DetachKeyDown ==
  \E target \in {"input", "menu", "body"}, key \in {"Enter", "Escape", "h"} :
    /\ target # "body" => ~Detached
    /\ CanTarget(target)
    /\ Step(keydown(Begin, target, key, NoModifier))

DetachMouseDown ==
  /\ ~Detached
  /\ handleDisplay # "none"
  /\ Apply(mousedown(Begin))

\* the pointer moves to clientY = 10; a detached element has an empty
\* bounding rectangle
DetachMouseMove ==
  Apply(mousemove(Begin, IF Detached THEN 0 ELSE innerHeight, 10))

DetachMouseUp == Apply(mouseup(Begin))

\* a script calls prompt.submit() or menu.confirm() on the children of the
\* detached <terminal-tui>
ScriptSubmit ==
  /\ Detached
  /\ Step(submit([Begin EXCEPT !.value = <<"w","o","r","k">>]))

ScriptConfirm ==
  /\ Detached
  /\ Apply(confirm(Begin))

\* <terminal-tui> is removed from the document
Detach ==
  /\ ~Detached
  /\ Apply(disconnectedCallback(Begin))

\* the same <terminal-tui> is inserted again
Attach ==
  /\ Detached
  /\ Apply(connectedCallback(Begin))

NextDetach ==
  \/ DetachTypeText
  \/ DetachKeyDown
  \/ DetachMouseDown
  \/ DetachMouseMove
  \/ DetachMouseUp
  \/ ScriptSubmit
  \/ ScriptConfirm
  \/ Detach
  \/ Attach

SpecDetach == InitDetach /\ [][NextDetach]_vars

----------------------------------------------------------------------------
(* Observations on the outcome of one event *)

navRequests(w) == SelectSeq(w.effects, LAMBDA e : e.op = "navigate")
logged(w) == SelectSeq(w.effects, LAMBDA e : e.op = "log")

\* TUIState, and what shows it
TUIState(w) ==
  <<w.menuVisible, w.consoleHidden, w.consoleHeight, w.isResizing,
    w.menuDisplay, w.promptDisplay, w.trayHeight, w.trayHidden,
    w.handleDisplay>>

AllModifiers ==
  [ctrlKey : BOOLEAN, metaKey : BOOLEAN, altKey : BOOLEAN, shiftKey : BOOLEAN]

Entry(content, type) == [content |-> content, markup |-> FALSE, type |-> type]

WelcomeLines(title) ==
  << Entry("Welcome to 29thfloor.com", "system"),
     Entry("Type \"menu\" to navigate or \"help\" for commands.", "system"),
     Entry("", "system"),
     Entry("Connected to " \o title, "system") >>

\* the user types text into the prompt and presses Enter
typeAndEnter(w, text) == keydown(handleInput(w, text), "input", "Enter", NoModifier)

----------------------------------------------------------------------------
(* Claims *)

\* C1: in every state reached by submitted commands, menu confirms, Escape,
\* shortcut keys, drag events and console toggles, the Menu is shown iff
\* the mode is MENU_ACTIVE (_menuVisible) and the Prompt is shown iff it is
\* PROMPT_ACTIVE: exactly one of the two is the active input surface.
C1_ExactlyOneSurface ==
  /\ (menuDisplay # "none") <=> menuVisible
  /\ (promptDisplay # "none") <=> ~menuVisible

\* C1 witness: the menu is the active surface after a drag has started and the
\* console was toggled
C1_Witness ==
  /\ menuVisible /\ menuDisplay = "block" /\ promptDisplay = "none"
  /\ consoleHidden /\ isResizing

\* the outcome r of a confirm of item
C2_Confirmed(r, item) ==
  /\ r.log = Append(log, Entry("Navigating to " \o item.label \o "...", "system"))
  /\ ~r.menuVisible
  /\ navRequests(r) = << [op |-> "navigate", path |-> item.path,
                          menuVisible |-> FALSE, logged |-> Len(log) + 1] >>

\* C2: in MENU_ACTIVE a confirm of a menu item (a click on it, or Enter or
\* Space on the selected item) appends "Navigating to <label>...", leaves the
\* mode PROMPT_ACTIVE and issues exactly one navigation request, to the
\* item's path; the request is issued with the entry already in the log and
\* the mode already PROMPT_ACTIVE.
C2_ConfirmLogsThenNavigates ==
  menuVisible =>
    /\ \A index \in 0..(Len(items) - 1) :
         C2_Confirmed(clickHandler(Cur, index), items[index + 1])
    /\ \A key \in {"Enter", " "}, mods \in AllModifiers :
         selectedIndex \in 0..(Len(items) - 1) =>
           C2_Confirmed(keydown(Cur, "menu", key, mods), items[selectedIndex + 1])

\* C2 witness: the third item was confirmed; the request was recorded in the
\* tab's store by saveSession
C2_Witness ==
  /\ ~menuVisible /\ selectedIndex = 2
  /\ Len(log) > 0 /\ log[Len(log)] = Entry("Navigating to Projects...", "system")
  /\ session["tui-session"] = "active"

\* the outcome r of a key press seen by the document listener
C3_Shortcut(r, key, isTyping, mods) ==
  LET k == Str(toLowerCase(<<key>>))
  IN IF isTyping \/ mods.ctrlKey \/ mods.metaKey \/ mods.altKey \/ menuVisible
     THEN r = Cur
     ELSE k \in DOMAIN shortcuts =>
            /\ navRequests(r) = << [op |-> "navigate", path |-> shortcuts[k],
                                    menuVisible |-> FALSE, logged |-> Len(log)] >>
            /\ logged(r) = <<>>
            /\ r.log = log

\* C3: a key press does nothing as a shortcut when it comes from a text-entry
\* surface, when ctrl, meta or alt is held, or when the mode is MENU_ACTIVE;
\* otherwise a letter of the ShortcutTable issues exactly one navigation
\* request, to its path, and appends nothing to the Output Log.
C3_ShortcutRouting ==
  /\ \A key \in Keys, mods \in AllModifiers, isTyping \in BOOLEAN :
       C3_Shortcut(shortcutHandler(Cur, key, isTyping, mods), key, isTyping, mods)
  /\ \A target \in Targets, key \in {"h", "w", "H"}, mods \in AllModifiers :
       CanTarget(target) =>
         C3_Shortcut(keydown(Cur, target, key, mods), key,
                     target \in {"input", "textarea"}, mods)

\* C3 witness: on the first page of the tab a shortcut has requested a
\* navigation and the log still holds the welcome lines only
C3_Witness ==
  /\ log = WelcomeLines(pageTitle)
  /\ session["tui-session"] = "active"
  /\ ~menuVisible

\* key pressed n times in the prompt
RECURSIVE pressed(_, _, _)
pressed(w, key, n) ==
  IF n = 0 THEN w ELSE pressed(keydown(w, "input", key, NoModifier), key, n - 1)

\* C4: after N >= 1 submitted commands, N presses of Up show the N commands
\* newest first, one more Up changes nothing, and Down from the oldest
\* steps back toward the newest and ends with an empty field.
C4_UpShowsHistoryNewestFirst ==
  (promptDisplay # "none" /\ Len(commandHistory) >= 1 /\ historyIndex = -1) =>
    LET N == Len(commandHistory)
        oldest == pressed(Cur, "ArrowUp", N)
    IN /\ \A n \in 1..N :
            pressed(Cur, "ArrowUp", n).value = commandHistory[N - n + 1]
       /\ pressed(oldest, "ArrowUp", 1).value = oldest.value
       /\ \A n \in 1..(N - 1) :
            pressed(oldest, "ArrowDown", n).value = commandHistory[n + 1]
       /\ pressed(oldest, "ArrowDown", N).value = <<>>

\* text is submitted in PROMPT_ACTIVE and the lookup finds nothing
C5_Unknown(text) ==
  /\ ~menuVisible /\ promptDisplay # "none"
  /\ trim(text) # <<>>
  /\ commands(Str(trim(toLowerCase(trim(text))))).call = "undefined"

\* C5 (as claimed): submitting a command that is not in the CommandTable, in
\* PROMPT_ACTIVE, appends exactly two entries, an error entry and then a
\* system entry, and changes no state of the Orchestrator.
C5_UnknownAppendsTwoEntries ==
  \A text \in TypedTexts :
    C5_Unknown(text) =>
      LET r == typeAndEnter(Cur, text)
      IN /\ r.log = log \o
                << Entry("Unknown command: " \o Str(trim(text)), "error"),
                   Entry("Type \"help\" for available commands.", "system") >>
         /\ TUIState(r) = TUIState(Cur)

\* C5 (amended): submitting, in PROMPT_ACTIVE, a text such as "xyz" that is
\* neither a CommandTable keyword nor the name of a property the lookup
\* object inherits appends exactly three entries: the echo of the trimmed
\* text (command), the error entry "Unknown command: <text>" and the hint
\* (system); it changes no state of the Orchestrator and requests no
\* navigation.
C5_UnknownAppendsEchoErrorHint ==
  \A text \in TypedTexts :
    C5_Unknown(text) =>
      LET r == typeAndEnter(Cur, text)
      IN /\ r.log = log \o
                << Entry(Str(trim(text)), "command"),
                   Entry("Unknown command: " \o Str(trim(text)), "error"),
                   Entry("Type \"help\" for available commands.", "system") >>
         /\ Len(logged(r)) = 3
         /\ TUIState(r) = TUIState(Cur)
         /\ navRequests(r) = <<>>
         /\ r.session = session

\* C5 witness: "xyz" was submitted
C5_Witness ==
  /\ Len(log) >= 3
  /\ SubSeq(log, Len(log) - 2, Len(log)) =
       << Entry("xyz", "command"), Entry("Unknown command: xyz", "error"),
          Entry("Type \"help\" for available commands.", "system") >>
  /\ ~menuVisible

C8_ClearResetsSessionFlag ==
  (~menuVisible /\ promptDisplay # "none") =>
    LET r == typeAndEnter(Cur, <<"c","l","e","a","r">>)
    IN r.log = <<>> /\ r.session["tui-visited"] = "null"

\* C8 (amended): the clear command leaves the Output Log empty and removes
\* only the key 'tui-history' from the tab's store; the session flag that
\* the first-visit check reads ('tui-visited') is left as it is.
C8_ClearKeepsSessionFlag ==
  (~menuVisible /\ promptDisplay # "none") =>
    LET r == typeAndEnter(Cur, <<"c","l","e","a","r">>)
    IN /\ r.log = <<>>
       /\ r.session = [session EXCEPT !["tui-history"] = "null"]
       /\ r.session["tui-visited"] = session["tui-visited"]
       /\ SelectSeq(r.effects, LAMBDA e : e.op \in {"setItem", "removeItem"})
            = << [op |-> "removeItem", key |-> "tui-history"] >>

\* C8 witness: clear was executed in a tab that has seen the welcome
C8_Witness ==
  /\ log = <<>>
  /\ commandHistory = << <<"c","l","e","a","r">> >>
  /\ session["tui-visited"] = "true"

\* C6: after any sequence of Menu operations on a non-empty item list, the
\* selection index lies in [0, itemCount-1], and a confirm carries an
\* existing item.
C6_SelectionInRange ==
  Len(items) > 0 =>
    /\ selectedIndex \in 0..(Len(items) - 1)
    /\ ~IsUndefined(itemAt(Cur, selectedIndex))
    /\ \A e \in { confirm(Cur).effects[i] : i \in 1..Len(confirm(Cur).effects) } :
         e.op # "throw"

\* pointer positions of C9: every pixel from above to below the viewports
PointerYs == -10..310

\* C9 (as claimed): while dragging, after every pointer move the tray height
\* lies within [minHeight, 0.5 x viewport height], for every pointer
\* position and every viewport height.
C9_DragWithinHalfViewport ==
  isResizing =>
    \A clientY \in PointerYs :
      LET r == resizeMouseMove(Cur, innerHeight, clientY)
      IN /\ r.trayHeight >= Px(minHeight)
         /\ r.trayHeight <= innerHeight

\* C9 (amended): while dragging, after every pointer move the tray height
\* is at least minHeight (48) and at most the larger of minHeight and
\* 0.5 x viewport height, for every pointer position; so it lies within
\* [minHeight, 0.5 x viewport height] in every viewport that is at least
\* 2 x minHeight high, and it is exactly minHeight in a lower viewport. The
\* height kept for the next show of the tray is the same height.
C9_DragClamped ==
  isResizing =>
    \A clientY \in PointerYs :
      LET r == resizeMouseMove(Cur, innerHeight, clientY)
      IN /\ r.trayHeight >= Px(minHeight)
         /\ r.trayHeight <= Max(Px(minHeight), innerHeight)
         /\ innerHeight >= Px(minHeight) => r.trayHeight <= innerHeight
         /\ innerHeight < Px(minHeight) => r.trayHeight = Px(minHeight)
         /\ r.consoleHeight = r.trayHeight
         /\ (Px(minHeight) <= Px(innerHeight - clientY)
              /\ Px(innerHeight - clientY) <= innerHeight)
            => r.trayHeight = Px(innerHeight - clientY)

\* C9 witness: a drag has ended at the upper limit of a 243 pixel viewport
C9_Witness ==
  /\ isResizing
  /\ innerHeight = 243
  /\ trayHeight = 243
  /\ consoleHeight = 243

\* C10: toggleConsole called twice in succession (hide, then show) restores
\* exactly the tray height that was in effect before the first call.
C10_ToggleTwiceRestoresHeight ==
  ~consoleHidden =>
    \A offsetHeight \in offsetHeights(Cur) :
      LET hid == toggleConsole(Cur, offsetHeight)
          shown == toggleConsole(hid, 0)
      IN /\ ~shown.consoleHidden
         /\ usedHeight(shown) = usedHeight(Cur)

\* events dispatched while one event was handled
dispatched(w, name) ==
  SelectSeq(w.effects, LAMBDA e : e.op = "dispatch" /\ e.name = name)

\* texts of the field that are empty or hold white space only
BlankTexts == { <<>>, <<" ">>, <<" ", " ">>, <<"\t">>, <<" ", "\t", " ">> }

\* the outcome r of Enter on a blank field
C11_BlankEnter(r) ==
  /\ dispatched(r, "prompt:submit") = <<>>
  /\ r.commandHistory = commandHistory
  /\ r.value = <<>>
  /\ r.log = log
  /\ TUIState(r) = TUIState(Cur)

\* C11: Enter in the Prompt with an empty or whitespace-only field emits no
\* submit event, leaves the command history and the Output Log as they
\* are, and clears the field.
C11_BlankSubmitIgnored ==
  promptDisplay # "none" =>
    /\ \A text \in BlankTexts : C11_BlankEnter(typeAndEnter(Cur, text))
    /\ trim(value) = <<>> =>
         C11_BlankEnter(keydown(Cur, "input", "Enter", NoModifier))

\* C11 witness: white space in the field of a prompt that has a history
C11_Witness ==
  /\ promptDisplay # "none"
  /\ value = <<" ", " ">>
  /\ Len(commandHistory) = 1

\* a step in which the prompt submits a command
C12_Submits == Len(commandHistory') = Len(commandHistory) + 1

\* what a step may do to the mode
C12_Step ==
  /\ (~menuVisible /\ menuVisible') =>
       /\ C12_Submits
       /\ promptDisplay # "none"
       /\ Str(toLowerCase(trim(value))) = "menu"
       /\ log' = Append(log, Entry(Str(trim(value)), "command"))
       /\ session' = session
  /\ (~menuVisible /\ C12_Submits) =>
       (menuVisible' <=> Str(toLowerCase(trim(value))) = "menu")

\* C12: the Orchestrator starts in PROMPT_ACTIVE; a submit of "menu", in any
\* letter case and with or without surrounding white space, moves it from
\* PROMPT_ACTIVE to MENU_ACTIVE and logs the echo of the command only (no
\* navigation); no other submit and no other event (shortcut key, drag
\* event, console toggle, page load) enters MENU_ACTIVE.
C12_MenuOnlyByCommand == ~menuVisible /\ [][C12_Step]_vars

\* C12 witness: " Menu " was submitted and the menu is shown
C12_Witness ==
  /\ menuVisible
  /\ commandHistory = << <<"M","e","n","u">> >>
  /\ log[Len(log)] = Entry("Menu", "command")

\* the outcome r of an Escape press
C13_Escape(r) ==
  IF menuVisible
  THEN /\ r.log = Append(log, Entry("Menu cancelled.", "system"))
       /\ Len(logged(r)) = 1
       /\ ~r.menuVisible /\ r.promptDisplay # "none" /\ r.menuDisplay = "none"
       /\ navRequests(r) = <<>>
  ELSE r.menuVisible = menuVisible /\ r.log = log

\* a step that leaves MENU_ACTIVE on the same page appends the entry of a
\* cancel or of a confirm
C13_Leave ==
  (menuVisible /\ ~menuVisible' /\ Len(log') > Len(log)) =>
    \/ log' = Append(log, Entry("Menu cancelled.", "system"))
    \/ /\ selectedIndex' \in 0..(Len(items) - 1)
       /\ log' = Append(log, Entry("Navigating to "
                                   \o items[selectedIndex' + 1].label \o "...",
                                   "system"))

\* C13: in MENU_ACTIVE, Escape appends exactly one "Menu cancelled." system
\* entry, returns the mode to PROMPT_ACTIVE and issues no navigation
\* request; in PROMPT_ACTIVE, Escape changes neither the mode nor the
\* Output Log.
C13_EscapeCancelsMenu ==
  \A target \in Targets, mods \in Modifiers :
    CanTarget(target) => C13_Escape(keydown(Cur, target, "Escape", mods))

\* what holds of Escape: the same, for a press on an element inside
\* <terminal-tui> (the prompt's field, the menu, content of the page in it)
C13_EscapeInsideTui ==
  \A target \in {"input", "menu", "content"}, mods \in Modifiers :
    CanTarget(target) => C13_Escape(keydown(Cur, target, "Escape", mods))

\* what holds of leaving MENU_ACTIVE: only a cancel and a confirm do it
C13_OnlyEscapeAndConfirmLeave == [][C13_Leave]_vars

\* the keywords of the CommandTable
Keywords == {"menu", "help", "clear"} \cup DOMAIN navigationCommands

\* whether handling the event raised an exception
thrown(w) == \E i \in 1..Len(w.effects) : w.effects[i].op = "throw"

\* C14: every submitted command whose trimmed, lower-cased text is not a
\* keyword of the CommandTable (names of built-in properties of the lookup
\* object such as "constructor" and "__proto__" included) appends the error
\* entry "Unknown command: <text>" followed by the hint entry, raises no
\* exception, changes no mode and issues no navigation request.
C14_UnknownCommandReported ==
  (promptDisplay # "none" /\ ~menuVisible) =>
    \A text \in TypedTexts :
      (trim(text) # <<>> /\ Str(toLowerCase(trim(text))) \notin Keywords) =>
        LET r == typeAndEnter(Cur, text)
            n == Len(r.log)
        IN /\ n >= Len(log) + 2
           /\ r.log[n - 1] = Entry("Unknown command: " \o Str(trim(text)), "error")
           /\ r.log[n] = Entry("Type \"help\" for available commands.", "system")
           /\ ~thrown(r)
           /\ r.menuVisible = menuVisible
           /\ navRequests(r) = <<>>

\* C15: Down in the Prompt while the newest history entry is shown clears
\* the field and parks the cursor one past the end of the history; from
\* there another Down changes nothing and the next Up shows the newest
\* entry again.
C15_DownPastNewestParks ==
  (promptDisplay # "none" /\ Len(commandHistory) >= 1
     /\ historyIndex = Len(commandHistory) - 1) =>
    LET N == Len(commandHistory)
        parked == pressed(Cur, "ArrowDown", 1)
    IN /\ parked.value = <<>>
       /\ parked.historyIndex = N
       /\ parked.commandHistory = commandHistory
       /\ parked.log = log
       /\ pressed(parked, "ArrowDown", 1) = parked
       /\ pressed(parked, "ArrowDown", 2) = parked
       /\ pressed(parked, "ArrowUp", 1).value = commandHistory[N]
       /\ pressed(parked, "ArrowUp", 1).historyIndex = N - 1
       /\ pressed(pressed(parked, "ArrowDown", 1), "ArrowUp", 1).value
            = commandHistory[N]

\* C15 witness: the cursor is parked past the end of a history
C15_Witness ==
  /\ promptDisplay # "none"
  /\ Len(commandHistory) >= 1
  /\ historyIndex = Len(commandHistory)
  /\ value = <<>>

\* val is a number outside [0, count-1]
OutOfRange(val, count) ==
  \/ Len(val) = 1 /\ (val[1] < 0 \/ val[1] >= count)
  \/ Len(val) = 2
  \/ val = Infinity

\* the outcome r of an assignment to menu.selected that is rejected
C16_Rejected(r) ==
  /\ r.selectedIndex = selectedIndex
  /\ dispatched(r, "menu:select") = <<>>
  /\ dispatched(r, "menu:confirm") = <<>>
  /\ ~thrown(r)
  /\ r = Cur

\* C16: assigning the Menu a selection index outside [0, itemCount-1] leaves
\* the selection unchanged, emits neither a select nor a confirm event, and
\* throws nothing.
C16_OutOfRangeRejected ==
  \A val \in SelectedValues \cup {Num(-7), Num(8), Num(100), Big(3, 21)} :
    OutOfRange(val, Len(items)) => C16_Rejected(selected(Cur, val))

\* what holds of the setter: an integer outside the range that String()
\* writes in digits (below 10^21 in magnitude) is rejected
C16_DigitsOutOfRangeRejected ==
  \A n \in -8..100 :
    OutOfRange(Num(n), Len(items)) => C16_Rejected(selected(Cur, Num(n)))

\* key pressed n times on the menu
RECURSIVE menuPressed(_, _, _)
menuPressed(w, key, n) ==
  IF n = 0 THEN w ELSE menuPressed(menuHandleKeydown(w, key), key, n - 1)

\* C17: on a menu whose selection is an item, selectNext and selectPrev move
\* the selection by exactly one and saturate at the last and the first item,
\* for any number of presses; Home and End select the first and the last
\* item; j and k do exactly what Down and Up do.
C17_MoveAndSaturate ==
  (Len(items) > 0 /\ selectedIndex \in 0..(Len(items) - 1)) =>
    LET last == Len(items) - 1
    IN /\ selectNext(Cur).selectedIndex = Min(selectedIndex + 1, last)
       /\ selectPrev(Cur).selectedIndex = Max(selectedIndex - 1, 0)
       /\ Len(dispatched(selectNext(Cur), "menu:select"))
            = IF selectedIndex < last THEN 1 ELSE 0
       /\ Len(dispatched(selectPrev(Cur), "menu:select"))
            = IF selectedIndex > 0 THEN 1 ELSE 0
       /\ \A n \in 0..(Len(items) + 1) :
            /\ menuPressed(Cur, "ArrowDown", n).selectedIndex
                 = Min(selectedIndex + n, last)
            /\ menuPressed(Cur, "ArrowUp", n).selectedIndex
                 = Max(selectedIndex - n, 0)
            /\ menuPressed(Cur, "j", n) = menuPressed(Cur, "ArrowDown", n)
            /\ menuPressed(Cur, "k", n) = menuPressed(Cur, "ArrowUp", n)
       /\ menuHandleKeydown(Cur, "Home").selectedIndex = 0
       /\ menuHandleKeydown(Cur, "End").selectedIndex = last
       /\ menuHandleKeydown(Cur, "ArrowDown") = selectNext(Cur)
       /\ menuHandleKeydown(Cur, "ArrowUp") = selectPrev(Cur)

\* C17 witness: the menu is shown with its last item selected
C17_Witness ==
  /\ menuVisible
  /\ items = navigationItems
  /\ selectedIndex = Len(items) - 1
  /\ selectedAttr = NaN

\* the one menu:confirm event that carries index and the item at index
ConfirmOf(index) ==
  << [op |-> "dispatch", name |-> "menu:confirm", index |-> index,
      item |-> items[index + 1]] >>

\* C18: a hover on a Menu item selects that item and emits no confirm event;
\* a click on an item emits exactly one confirm event, carrying the clicked
\* item and its index; Enter or Space on a non-empty Menu whose selection
\* is an item emits exactly one confirm event, carrying the selection index
\* and the item at that index.
C18_HoverSelectsClickConfirms ==
  /\ \A index \in 0..(Len(items) - 1) :
       LET r == hoverHandler(Cur, index)
       IN /\ r.selectedIndex = index
          /\ dispatched(r, "menu:confirm") = <<>>
          /\ Len(dispatched(r, "menu:select"))
               = IF index = selectedIndex THEN 0 ELSE 1
          /\ r.log = log /\ r.menuVisible = menuVisible
          /\ navRequests(r) = <<>>
  /\ \A index \in 0..(Len(items) - 1) :
       LET r == clickHandler(Cur, index)
       IN /\ r.selectedIndex = index
          /\ dispatched(r, "menu:confirm") = ConfirmOf(index)
  /\ \A key \in {"Enter", " "} :
       (Len(items) > 0 /\ selectedIndex \in 0..(Len(items) - 1)) =>
         LET r == menuHandleKeydown(Cur, key)
         IN /\ r.selectedIndex = selectedIndex
            /\ dispatched(r, "menu:confirm") = ConfirmOf(selectedIndex)
            /\ dispatched(r, "menu:select") = <<>>

\* C18 witness: the menu is shown with a selection set by hover or keys, and
\* nothing was confirmed on this page
C18_Witness ==
  /\ menuVisible
  /\ selectedIndex = 4
  /\ log[Len(log)] = Entry("menu", "command")
  /\ session["tui-session"] = "null"

\* the entries that the calls of SpecLog append: a text is read back as
\* that text, HTML as the text it holds
LogEntries ==
  { [content |-> Str(text), markup |-> FALSE, type |-> type] :
      text \in LogTexts, type \in LogTypes }
  \cup { [content |-> "<b>ok", markup |-> TRUE, type |-> "system"] }

\* what one call does to the entries read back
C19_Call ==
  \/ log' = <<>>
  \/ \E entry \in LogEntries : log' = Append(log, entry)

\* C19: for every sequence of append and clear calls on the Output Log, the
\* entries read back are the entries appended since the last clear, in
\* call order: an append adds its entry after the others and leaves them
\* as they are, a clear removes all entries in one step.
C19_ReadBackInCallOrder == [][C19_Call]_vars

\* C19 witness: after a clear, a text with markup characters and then HTML
\* were appended
C19_Witness ==
  /\ Len(log) = 2
  /\ log[1] = [content |-> "<b>&", markup |-> FALSE, type |-> "null"]
  /\ log[2] = [content |-> "<b>ok", markup |-> TRUE, type |-> "system"]

\* the clamped height of a pointer move at clientY, in half pixels
clamped(clientY) ==
  Max(Px(minHeight), Min(innerHeight, Px(innerHeight - clientY)))

\* C20: the dragging flag is set on handle press and cleared on release; a
\* pointer move while not dragging leaves the tray height unchanged; after
\* release the tray height is the clamped height of the last pointer move
\* processed during the drag, and moves after the release do not change it.
C20_DragLifecycle ==
  LET down == resizeMouseDown(Cur)
  IN /\ down.isResizing
     /\ down.trayHeight = trayHeight
     /\ ~resizeMouseUp(Cur).isResizing
     /\ resizeMouseUp(Cur).trayHeight = trayHeight
     /\ resizeMouseUp(down).trayHeight = trayHeight
     /\ \A clientY \in PointerYs :
          ~isResizing => resizeMouseMove(Cur, innerHeight, clientY) = Cur
     /\ \A y1 \in ClientYs, y2 \in PointerYs :
          LET last == resizeMouseMove(resizeMouseMove(down, innerHeight, y1),
                                      innerHeight, y2)
              up == resizeMouseUp(last)
          IN /\ last.isResizing
             /\ ~up.isResizing
             /\ up.trayHeight = clamped(y2)
             /\ up.consoleHeight = clamped(y2)
             /\ resizeMouseMove(up, innerHeight, y1) = up

\* C20 witness: a drag to the upper limit of a 243 pixel viewport was
\* released
C20_Witness ==
  /\ ~isResizing
  /\ ~consoleHidden
  /\ innerHeight = 243
  /\ trayHeight = 243
  /\ consoleHeight = 243

\* the outcome r of Enter on a field whose trimmed text is command
C21_Enter(r, command) ==
  /\ r.commandHistory = Append(commandHistory, command)
  /\ dispatched(r, "prompt:submit") =
       << [op |-> "dispatch", name |-> "prompt:submit", command |-> command] >>
  /\ r.value = <<>>

\* Enter on non-blank text, and the history as it stands
C21_Submit ==
  /\ \A i \in 1..Len(commandHistory) : commandHistory[i] # <<>>
  /\ promptDisplay # "none" =>
       /\ \A text \in PromptTexts :
            trim(text) # <<>> => C21_Enter(typeAndEnter(Cur, text), trim(text))
       /\ trim(value) # <<>> =>
            C21_Enter(keydown(Cur, "input", "Enter", NoModifier), trim(value))
       /\ typeAndEnter(Cur, <<" ","x","y","z"," ">>).commandHistory =
            Append(commandHistory, <<"x","y","z">>)

\* within a page lifetime the history only grows at its end; a page load
\* starts the next lifetime
C21_Step ==
  \/ /\ Len(commandHistory) <= Len(commandHistory')
     /\ SubSeq(commandHistory', 1, Len(commandHistory)) = commandHistory
  \/ \E title \in PageTitles :
       Apply(connectedCallback(constructor(title, innerHeight, session)))

\* C21: Enter in the Prompt with non-blank text appends exactly the trimmed
\* text as the newest history element, emits exactly one submit event that
\* carries that trimmed text, and clears the field; the history never
\* holds an empty string and is never shortened or reordered within a page
\* lifetime.
C21_SubmitRecordsTrimmed == []C21_Submit /\ [][C21_Step]_vars

\* C21 witness: two commands were submitted on one page, the newest typed
\* with white space around it, and the field is empty again
C21_Witness ==
  /\ commandHistory = << <<"c","l","e","a","r">>, <<"x","y","z">> >>
  /\ value = <<>>
  /\ historyIndex = -1
  /\ log[Len(log)] = Entry("Type \"help\" for available commands.", "system")


\* the outcome r of an event on the menu: no select event, no confirm
\* event, no error, and still no items
C22_Inert(r) ==
  /\ dispatched(r, "menu:select") = <<>>
  /\ dispatched(r, "menu:confirm") = <<>>
  /\ ~thrown(r)
  /\ r.items = <<>>

\* C22: a Menu whose item list payload cannot be parsed has an empty item
\* list and stays inert: no key press, hover, click or selection assignment,
\* after any sequence of them, emits a select or confirm event or raises an
\* error.
C22_UnparsableItemsInert ==
  /\ itemsAttr = invalidJson
  /\ items = <<>>
  /\ \A key \in Keys : C22_Inert(keydown(Cur, "menu", key, NoModifier))
  /\ \A index \in 0..(Len(navigationItems) - 1) :
       /\ C22_Inert(hoverHandler(Cur, index))
       /\ C22_Inert(clickHandler(Cur, index))
  /\ \A val \in SelectedValues :
       /\ C22_Inert(selected(Cur, val))
       /\ C22_Inert(selectedAttributeChanged(Cur, val))

\* C22 witness: the menu without items is shown again after an Escape, and
\* its selected attribute was set to 6
C22_Witness ==
  /\ itemsAttr = invalidJson
  /\ items = <<>>
  /\ menuDisplay = "block"
  /\ Len(commandHistory) = 2
  /\ log[Len(log) - 1] = Entry("Menu cancelled.", "system")
  /\ selectedAttr = Num(6)
  /\ selectedIndex = 6


\* the calls of sessionStorage made while one event was handled
storeOps(w) ==
  SelectSeq(w.effects, LAMBDA e : e.op \in {"getItem", "setItem", "removeItem"})

C23_Get(key) == [op |-> "getItem", key |-> key]
C23_Set(key) == [op |-> "setItem", key |-> key]
C23_Remove(key) == [op |-> "removeItem", key |-> key]

\* the calls expected of a key press or a click with outcome r, where
\* command is the text submitted, if any
C23_Calls(r, command) ==
  IF Str(toLowerCase(command)) = "clear" THEN << C23_Remove("tui-history") >>
  ELSE IF navRequests(r) # <<>> THEN << C23_Set("tui-session") >>
  ELSE <<>>

\* the outcome r leaves the store alone
C23_Untouched(r) == storeOps(r) = <<>> /\ r.session = session

\* the outcomes of the events that are neither a page load nor the clear
\* command: typed commands, key presses, clicks and hovers on the menu,
\* drag and toggle
C23_Others ==
  { typeAndEnter(Cur, text) :
      text \in { t \in TypedTexts :
                   promptDisplay # "none" /\ Str(toLowerCase(trim(t))) # "clear" } }
  \cup
  { keydown(Cur, target, key, mods) :
      target \in { t \in Targets : CanTarget(t) }, key \in Keys \ {"Enter"},
      mods \in Modifiers }
  \cup
  { keydown(Cur, "menu", "Enter", NoModifier) : x \in { y \in {1} : menuVisible } }
  \cup
  { clickHandler(Cur, index) :
      index \in { i \in 0..(Len(items) - 1) : menuVisible } }
  \cup
  { hoverHandler(Cur, index) :
      index \in { i \in 0..(Len(items) - 1) : menuVisible } }
  \cup
  { resizeMouseDown(Cur), resizeMouseUp(Cur),
    resizeMouseUp(resizeMouseDown(Cur)) }
  \cup
  { resizeMouseMove(resizeMouseDown(Cur), innerHeight, clientY) :
      clientY \in ClientYs }
  \cup
  { toggleConsole(Cur, offsetHeight) : offsetHeight \in offsetHeights(Cur) }

\* C23 as stated: no operation other than the first-visit check and the
\* clear command reads from or writes to the per-tab store; navigation,
\* drag and toggle write nothing to it.
C23_OnlyFirstVisitAndClear == \A r \in C23_Others : C23_Untouched(r)

\* C23: the first-visit check of a page load reads tui-visited and, in a
\* new tab only, writes it; the clear command removes tui-history; every
\* navigation request (typed, shortcut or menu confirm) writes tui-session;
\* no other operation, drag and toggle among them, reads from or writes to
\* the per-tab store, and tui-visited is written at most once per tab.
C23_StoreUse ==
  /\ session["tui-visited"] = "true"
  /\ \A title \in PageTitles :
       /\ storeOps(connectedCallback(constructor(title, innerHeight, session))) =
            << C23_Get("tui-visited") >>
       /\ storeOps(connectedCallback(constructor(title, innerHeight, FreshStore))) =
            << C23_Get("tui-visited"), C23_Set("tui-visited") >>
  /\ promptDisplay # "none" =>
       \A text \in TypedTexts :
         storeOps(typeAndEnter(Cur, text)) =
           C23_Calls(typeAndEnter(Cur, text), trim(text))
  /\ \A r \in C23_Others :
       /\ storeOps(r) = C23_Calls(r, <<>>)
       /\ navRequests(r) = <<>> => r.session = session
       /\ navRequests(r) # <<>> =>
            r.session = [session EXCEPT !["tui-session"] = "active"]

\* C23 witness: a page loaded after a navigation request, which left its
\* mark in the store
C23_Witness ==
  /\ session["tui-session"] = "active"
  /\ session["tui-visited"] = "true"
  /\ session["tui-history"] = "null"
  /\ log = << Entry("Connected to HOME", "system") >>


\* the navigation keywords as typed, in lower case, in upper case and in
\* mixed case with white space around, each with its path
C24_Typed ==
  { [text |-> <<"h","o","m","e">>, path |-> "/"],
    [text |-> <<"b","l","o","g">>, path |-> "/blog"],
    [text |-> <<"w","o","r","k">>, path |-> "/work"],
    [text |-> <<"a","b","o","u","t">>, path |-> "/about"],
    [text |-> <<"c","o","n","t","a","c","t">>, path |-> "/contact"],
    [text |-> <<"a","r","c","h","i","v","e">>, path |-> "/archive"],
    [text |-> <<"p","r","o","j","e","c","t","s">>, path |-> "/projects"],
    [text |-> <<"e","v","e","r","y","d","a","y">>, path |-> "/everyday"],
    [text |-> <<"H","O","M","E">>, path |-> "/"],
    [text |-> <<"B","L","O","G">>, path |-> "/blog"],
    [text |-> <<" ","W","o","r","k">>, path |-> "/work"],
    [text |-> <<"A","b","o","u","t"," ">>, path |-> "/about"],
    [text |-> <<"c","o","n","T","A","C","T">>, path |-> "/contact"],
    [text |-> <<"\t","A","R","C","H","I","V","E">>, path |-> "/archive"],
    [text |-> <<"P","r","o","J","e","c","t","s">>, path |-> "/projects"],
    [text |-> <<" ","E","V","E","R","Y","D","A","Y"," ">>, path |-> "/everyday"] }

\* the outcome r of Enter on a navigation keyword typed as text
C24_Navigated(r, text, path) ==
  /\ r.log = Append(log, Entry(Str(trim(text)), "command"))
  /\ navRequests(r) = << [op |-> "navigate", path |-> path,
                          menuVisible |-> FALSE, logged |-> Len(log) + 1] >>
  /\ ~r.menuVisible
  /\ r.promptDisplay # "none"
  /\ r.menuDisplay = "none"

\* C24: each of the keywords home, blog, work, about, contact, archive,
\* projects and everyday, typed in any letter case, issues exactly one
\* navigation request, to its fixed path; the request is issued with the
\* entry logged for that command already in the Output Log, and the mode
\* stays PROMPT_ACTIVE.
C24_KeywordNavigates ==
  (promptDisplay # "none" /\ ~menuVisible) =>
    /\ \A t \in C24_Typed : C24_Navigated(typeAndEnter(Cur, t.text), t.text, t.path)
    /\ \A t \in C24_Typed :
         value = t.text =>
           C24_Navigated(keydown(Cur, "input", "Enter", NoModifier), t.text, t.path)

\* C24 witness: " Work" was typed and submitted after another command
C24_Witness ==
  /\ commandHistory = << <<"c","l","e","a","r">>, <<"W","o","r","k">> >>
  /\ log = << Entry("Work", "command") >>
  /\ session["tui-session"] = "active"
  /\ ~menuVisible
  /\ promptDisplay # "none"
  /\ value = <<>>


\* the outcome r of an operation on the menu: a select event with the new
\* index and its item if the index changed, no select event if it did not
C25_SelectIffChange(r) ==
  dispatched(r, "menu:select") =
    IF r.selectedIndex # selectedIndex
    THEN << [op |-> "dispatch", name |-> "menu:select",
             index |-> r.selectedIndex, item |-> itemAt(r, r.selectedIndex)] >>
    ELSE <<>>

\* the operations of the menu that go through the selected setter
C25_BySetter ==
  /\ \A key \in Keys : C25_SelectIffChange(menuHandleKeydown(Cur, key))
  /\ \A index \in 0..(Len(items) - 1) :
       /\ C25_SelectIffChange(hoverHandler(Cur, index))
       /\ C25_SelectIffChange(clickHandler(Cur, index))
  /\ \A val \in SelectedValues : C25_SelectIffChange(selected(Cur, val))

\* C25: the Menu emits a select event exactly when its selection index
\* changes value, with the new index and the item at that index; operations
\* that leave the index unchanged emit no select event, and no change of the
\* index (by a key, a hover, a click, an assignment to the selected property
\* or attribute, or a new item list) happens without a select event.
C25_SelectExactlyOnChange ==
  /\ C25_BySetter
  /\ \A val \in SelectedValues :
       C25_SelectIffChange(selectedAttributeChanged(Cur, val))
  /\ \A list \in ItemLists :
       /\ C25_SelectIffChange(itemsAttributeChanged(Cur, jsonStringify(list)))
       /\ C25_SelectIffChange(itemsSet(Cur, list))


\* the values returned while one call was handled
returned(w) == SelectSeq(w.effects, LAMBDA e : e.op = "return")

\* the outcome r of one toggleConsole call
C26_Toggled(r) ==
  /\ r.consoleHidden = ~consoleHidden
  /\ r.trayHidden = r.consoleHidden
  /\ dispatched(r, "console:toggle") =
       << [op |-> "dispatch", name |-> "console:toggle",
           hidden |-> r.consoleHidden] >>
  /\ returned(r) = << [op |-> "return", value |-> ~r.consoleHidden] >>
  /\ r.effects[Len(r.effects)].op = "return"

\* C26: every toggleConsole call flips consoleHidden, emits exactly one
\* console-toggle event whose hidden field is the new value of consoleHidden,
\* and returns true exactly when the console is visible after the call.
C26_ToggleFlipsAndReports ==
  \A offsetHeight \in offsetHeights(Cur) :
    C26_Toggled(toggleConsole(Cur, offsetHeight))

\* C26 witness: the console was hidden by a call made during a drag
C26_Witness ==
  /\ consoleHidden
  /\ trayHidden
  /\ handleDisplay = "none"
  /\ isResizing
  /\ innerHeight = 244


\* the outcome r of Escape in the prompt
C27_Escaped(r) ==
  /\ r.value = <<>>
  /\ dispatched(r, "prompt:submit") = <<>>
  /\ r.commandHistory = commandHistory
  /\ r.historyIndex = -1

\* C27: Escape in the Prompt, for any field content and any position of the
\* history cursor, clears the field, emits no submit event, leaves the
\* history as it is and puts the cursor back at its initial position (no
\* entry selected).
C27_EscapeClearsField ==
  promptDisplay # "none" =>
    \A mods \in Modifiers :
      /\ C27_Escaped(keydown(Cur, "input", "Escape", mods))
      /\ \A text \in PromptTexts :
           C27_Escaped(keydown(handleInput(Cur, text), "input", "Escape", mods))

\* C27 witness: the cursor is at the older of two entries, which the field
\* shows
C27_Witness ==
  /\ promptDisplay # "none"
  /\ Len(commandHistory) = 2
  /\ historyIndex = 0
  /\ value = commandHistory[1]
  /\ value # <<>>


\* the outcome r of an event leaves the TUIState and the Output Log as they
\* are
C28_Quiet(r) ==
  /\ TUIState(r) = TUIState(Cur)
  /\ r.log = log

\* a key press that is a submit, a confirm, an Escape in the menu or a
\* shortcut
C28_Handled(target, key) ==
  \/ target = "input" /\ key = "Enter"
  \/ target = "menu" /\ key \in {"Enter", " "}
  \/ key = "Escape" /\ menuVisible
  \/ /\ target \notin {"input", "textarea"}
     /\ Str(toLowerCase(<<key>>)) \in DOMAIN shortcuts

\* C28: menu selection changes (by key, hover or assignment), history
\* navigation in the prompt and Escape in the prompt never change the
\* TUIState (mode, consoleHidden, consoleHeight, dragging) and append nothing
\* to the Output Log; neither does any other event that is not a submit, a
\* confirm, an Escape in the menu, a shortcut, a drag or a toggle.
C28_OnlyOrchestratorEvents ==
  /\ \A target \in Targets, key \in Keys, mods \in Modifiers :
       (CanTarget(target) /\ ~C28_Handled(target, key)) =>
         C28_Quiet(keydown(Cur, target, key, mods))
  /\ menuDisplay # "none" =>
       /\ \A index \in 0..(Len(items) - 1) : C28_Quiet(hoverHandler(Cur, index))
       /\ \A val \in SelectedValues :
            /\ C28_Quiet(selected(Cur, val))
            /\ C28_Quiet(selectedAttributeChanged(Cur, val))
  /\ promptDisplay # "none" =>
       \A text \in TypedTexts : C28_Quiet(handleInput(Cur, text))

\* C28 witness: in the menu the selection was moved to the third item, and
\* the last entry of the log is still the echo of the command
C28_Witness ==
  /\ menuVisible
  /\ selectedIndex = 2
  /\ log = WelcomeLines("HOME") \o << Entry("menu", "command") >>
  /\ TUIState(Cur) = <<TRUE, FALSE, Px(120), FALSE, "block", "none", Px(120),
                       FALSE, "">>


\* texts with markup in them, as a user may type them
C29_Markup ==
  { <<"<","b",">","&">>, <<"&","l","t",";">>, <<"<","/","d","i","v",">">>,
    <<"a","<","i",">","b">> }

\* the entries that Enter on an unknown command appends, each holding the
\* text as it was typed
C29_Entries(text) ==
  << Entry(Str(text), "command"),
     Entry("Unknown command: " \o Str(text), "error"),
     Entry("Type \"help\" for available commands.", "system") >>

\* no entry of the log holds interpreted markup
C29_Literal(entries) == \A i \in 1..Len(entries) : ~entries[i].markup

\* C29: every entry that the Orchestrator appends to the Output Log, the
\* echo of the typed text and the "Unknown command: <text>" message among
\* them, goes through appendLine and is stored as literal text: markup in
\* it is never interpreted, whatever the user typed.
C29_EntriesAreLiteralText ==
  /\ C29_Literal(log)
  /\ (promptDisplay # "none" /\ ~menuVisible) =>
       /\ \A text \in C29_Markup :
            typeAndEnter(Cur, text).log = log \o C29_Entries(text)
       /\ \A text \in PromptTexts : C29_Literal(typeAndEnter(Cur, text).log)
  /\ \A title \in PageTitles :
       C29_Literal(connectedCallback(constructor(title, innerHeight, session)).log)

\* C29 witness: the user typed "<b>&" and pressed Enter; the log shows the
\* text as typed, in the echo and in the message
C29_Witness ==
  /\ Len(log) >= 3
  /\ SubSeq(log, Len(log) - 2, Len(log)) = C29_Entries(<<"<","b",">","&">>)


\* a step in which the requested scroll runs, with every entry in the log
C30_Scrolls ==
  /\ ~scrollRequested'
  /\ log' = log
  /\ scrolledTo' = Len(log)

\* C30: every append to the Output Log schedules a scroll-to-bottom, which
\* runs after the new entry was added and before the next user event is
\* handled: while a scroll is requested the next step is that scroll, and
\* when none is requested the view is at the newest entry.
C30_ScrollBeforeNextEvent ==
  /\ [](~scrollRequested => scrolledTo = Len(log))
  /\ [][scrollRequested => C30_Scrolls]_vars

\* when no scroll is requested the view is at the newest entry
C30_ViewAtNewestAfterFrame == ~scrollRequested => scrolledTo = Len(log)

\* every append requests a scroll, and the scroll, when it runs, goes to
\* the newest entry
C30_AppendRequestsScroll ==
  [][/\ Len(log') > Len(log) => scrollRequested'
     /\ (scrollRequested /\ ~scrollRequested') => scrolledTo' = Len(log')]_vars


\* the outcome r of an event leaves the Orchestrator as it is: no change of
\* the mode, the tray or the drag, no log entry, no navigation request
C31_Ignored(r) ==
  /\ TUIState(r) = TUIState(Cur)
  /\ r.log = log
  /\ logged(r) = <<>>
  /\ navRequests(r) = <<>>
  /\ r.session = session

\* C31: after the Orchestrator is detached every listener it registered is
\* released: no later key press, pointer press, move or release, submit or
\* confirm changes its mode or tray height, appends a log entry or causes
\* a navigation request.
C31_DetachedIgnoresEvents ==
  Detached =>
    /\ \A target \in Targets, key \in Keys, mods \in Modifiers :
         C31_Ignored(keydown(Cur, target, key, mods))
    /\ \A clientY \in ClientYs, bottom \in {0, innerHeight} :
         C31_Ignored(mousemove(Cur, bottom, clientY))
    /\ C31_Ignored(mousedown(Cur))
    /\ C31_Ignored(mouseup(Cur))
    /\ C31_Ignored(confirm(Cur))
    /\ \A text \in TypedTexts : C31_Ignored(submit([Cur EXCEPT !.value = text]))

\* C31 witness: the Orchestrator was detached in MENU_ACTIVE during a drag
C31_Witness ==
  /\ Detached
  /\ menuVisible
  /\ isResizing


\* <terminal-tui> after it was detached, if it is attached, and attached
\* again
C32_Reattached ==
  [connectedCallback(IF Detached THEN Cur ELSE disconnectedCallback(Cur))
     EXCEPT !.effects = <<>>]

\* C32: detaching the Orchestrator and attaching it again yields a
\* consistent state whatever the mode and the drag state were when it was
\* detached: the prompt is shown if and only if the mode is PROMPT_ACTIVE,
\* the "menu" command still enters MENU_ACTIVE, shortcuts are not left
\* suppressed, and dragging is false.
C32_ReattachConsistent ==
  LET r == C32_Reattached
  IN /\ (r.promptDisplay # "none") <=> ~r.menuVisible
     /\ (r.menuDisplay # "none") <=> r.menuVisible
     /\ r.promptDisplay # "none" =>
          LET m == typeAndEnter(r, <<"m","e","n","u">>)
          IN m.menuVisible /\ m.menuDisplay # "none" /\ m.promptDisplay = "none"
     /\ Len(navRequests(keydown(r, "body", "h", NoModifier))) = 1
     /\ ~r.isResizing

\* detached while the menu is hidden and no drag goes on, the Orchestrator
\* is attached again in a consistent state
C32_ReattachFromRest ==
  (~menuVisible /\ ~isResizing) =>
    LET r == C32_Reattached
    IN /\ r.promptDisplay # "none" /\ r.menuDisplay = "none" /\ ~r.menuVisible
       /\ typeAndEnter(r, <<"m","e","n","u">>).menuVisible
       /\ Len(navRequests(keydown(r, "body", "h", NoModifier))) = 1
       /\ ~r.isResizing


\* C33: no single user event (a key press, a click or a submit) results in
\* more than one navigation request, although a key press is delivered in
\* turn to the menu's handler, the Escape handler and the shortcut handler
\* of the document; a confirm by Enter or Space, which leaves MENU_ACTIVE
\* before the key press reaches the shortcut handler, requests its one
\* navigation and is not taken as a shortcut as well.
C33_AtMostOneNavigation ==
  /\ \A target \in Targets, key \in Keys, mods \in Modifiers :
       CanTarget(target) => Len(navRequests(keydown(Cur, target, key, mods))) <= 1
  /\ promptDisplay # "none" =>
       \A text \in TypedTexts : Len(navRequests(typeAndEnter(Cur, text))) <= 1
  /\ menuDisplay # "none" =>
       /\ \A index \in 0..(Len(items) - 1) :
            navRequests(clickHandler(Cur, index)) =
              << [op |-> "navigate", path |-> items[index + 1].path,
                  menuVisible |-> FALSE, logged |-> Len(log) + 1] >>
       /\ \A key \in {"Enter", " "}, mods \in Modifiers :
            selectedIndex \in 0..(Len(items) - 1) =>
              LET r == keydown(Cur, "menu", key, mods)
              IN /\ navRequests(r) =
                      << [op |-> "navigate", path |-> items[selectedIndex + 1].path,
                          menuVisible |-> FALSE, logged |-> Len(log) + 1] >>
                 /\ ~r.menuVisible

\* C33 witness: the menu is shown with its fourth item, Work, selected, whose
\* path the shortcut w has as well
C33_Witness ==
  /\ menuVisible
  /\ menuDisplay # "none"
  /\ selectedIndex = 3
  /\ items[4].path = shortcuts["w"]


\* the key values of the mapped letters with Shift held
C34_Shifted ==
  [h |-> "H", b |-> "B", w |-> "W", e |-> "E", a |-> "A", c |-> "C"]

\* the paths of the mapped letters
C34_Paths ==
  [h |-> "/", b |-> "/blog", w |-> "/work", e |-> "/everyday",
   a |-> "/about", c |-> "/contact"]

\* C34: holding Shift does not suppress a shortcut: in PROMPT_ACTIVE and
\* outside a text field, Shift with a mapped letter (an upper-case key
\* value) issues the same single navigation request as the letter alone.
C34_ShiftKeepsShortcut ==
  ~menuVisible =>
    \A letter \in DOMAIN C34_Shifted, target \in {"content", "body"} :
      LET bare == keydown(Cur, target, letter, NoModifier)
          shifted == keydown(Cur, target, C34_Shifted[letter],
                             [NoModifier EXCEPT !.shiftKey = TRUE])
      IN /\ navRequests(shifted) =
              << [op |-> "navigate", path |-> C34_Paths[letter],
                  menuVisible |-> FALSE, logged |-> Len(log)] >>
         /\ navRequests(shifted) = navRequests(bare)
         /\ shifted.log = log
         /\ TUIState(shifted) = TUIState(Cur)

\* C34 witness: in PROMPT_ACTIVE a shortcut has requested a navigation,
\* which appends nothing to the log
C34_Witness ==
  /\ ~menuVisible
  /\ promptDisplay # "none"
  /\ session["tui-session"] = "active"
  /\ log = WelcomeLines("HOME")


\* the outcome r of Up or Down in the prompt
C35_Navigated(r) ==
  /\ r.historyIndex \in -1..Len(commandHistory)
  /\ r.commandHistory = commandHistory
  /\ Len(commandHistory) = 0 =>
       r.historyIndex = historyIndex /\ r.value = value
  /\ (r.historyIndex # historyIndex /\ r.historyIndex \in 0..(Len(commandHistory) - 1)) =>
       r.value = commandHistory[r.historyIndex + 1]

\* C35: after any sequence of Enter, Escape, Up and Down in the Prompt the
\* history cursor lies between -1 and the length of the history; with an
\* empty history Up and Down change neither the cursor nor the field; and
\* whenever Up or Down moves the cursor onto an entry, the field shows
\* exactly that entry.
C35_CursorInRange ==
  /\ historyIndex \in -1..Len(commandHistory)
  /\ promptDisplay # "none" =>
       /\ \A key \in {"ArrowUp", "ArrowDown"}, mods \in Modifiers :
            C35_Navigated(keydown(Cur, "input", key, mods))
       /\ \A key \in {"Enter", "Escape"} :
            LET r == keydown(Cur, "input", key, NoModifier)
            IN r.historyIndex \in -1..Len(r.commandHistory)

\* C35 witness: Down has moved the cursor onto the newer of two entries
C35_Witness ==
  /\ promptDisplay # "none"
  /\ Len(commandHistory) = 2
  /\ historyIndex = 1
  /\ value = commandHistory[2]


----------------------------------------------------------------------------
(* The paging loops of api.ts, run at build time against a site of up to   *)
(* MaxPosts posts.  One step is one turn of the loop: the function is      *)
(* suspended at its two awaits and resumes when the answer has arrived.    *)

InitApi ==
  /\ PageState(constructor("HOME", 90, FreshStore))
  /\ \E server \in Servers, total \in 0..MaxPosts :
       api = [NoCall EXCEPT !.server = server, !.total = total]

ApiStep(a) ==
  /\ api' = a
  /\ UNCHANGED <<menuVisible, consoleHidden, consoleHeight, isResizing,
                 menuDisplay, promptDisplay, trayHeight, trayHidden,
                 handleDisplay, log, session, value, historyIndex,
                 commandHistory, items, selectedIndex, itemsAttr, selectedAttr,
                 innerHeight, pageTitle, scrollRequested, scrolledTo,
                 listeners, isConnected>>

GetAllEverydaySlugs ==
  /\ api.status = "idle"
  /\ ApiStep(callGetAll(api, "getAllEverydaySlugs"))

GetAllEverydayNavInfo ==
  /\ api.status = "idle"
  /\ ApiStep(callGetAll(api, "getAllEverydayNavInfo"))

GetAllBlogSlugs ==
  /\ api.status = "idle"
  /\ ApiStep(callGetAll(api, "getAllBlogSlugs"))

\* while (hasMore) { ... }
LoopTurn ==
  /\ api.status = "running"
  /\ api.hasMore
  /\ ApiStep(loopBody(api))

\* the loop is left: return slugs
Return ==
  /\ api.status = "running"
  /\ ~api.hasMore
  /\ ApiStep(returnAll(api))

NextApi ==
  \/ GetAllEverydaySlugs
  \/ GetAllEverydayNavInfo
  \/ GetAllBlogSlugs
  \/ LoopTurn
  \/ Return

\* The server answers every request, and a function that is not suspended
\* runs on: a turn of the loop or the return that can be taken is taken.
SpecApi ==
  InitApi /\ [][NextApi]_vars /\ WF_vars(LoopTurn) /\ WF_vars(Return)

\* the pages 1, 2, ... up to the first one with fewer than perPage posts
C36_Pages(total) == [p \in 1..((total \div perPage) + 1) |-> p]

\* what a call that has returned has requested and collected
C36_Returned ==
  api.status = "returned" =>
    /\ api.slugs = [i \in 1..api.total |-> mapPost(api.fn, Post(i))]
    /\ [i \in 1..Len(api.requests) |-> api.requests[i].page]
         = C36_Pages(api.total)
    /\ \A i \in 1..Len(api.requests) :
         /\ api.requests[i].per_page = perPage
         /\ api.requests[i].route = route(api.fn)

\* a call in progress has requested the pages before page, which are no
\* more than the site has and one, and goes on by a turn or by the return
C36_Progress ==
  api.status = "running" =>
    /\ Len(api.requests) = api.page - 1
    /\ api.page <= (api.total \div perPage) + 2
    /\ (ENABLED LoopTurn) \/ (ENABLED Return)

\* C36: getAllEverydaySlugs, getAllEverydayNavInfo and getAllBlogSlugs
\* terminate for every total number of posts, the exact multiples of 100
\* included, and return every post exactly once in page order, having
\* requested the pages 1, 2, 3, ... in sequence up to the first page with
\* fewer than 100 posts.  Termination by return: a call never ends by
\* throwing, a call in progress can always go on, and its turns are bounded
\* by the number of pages.
C36_ReturnsEveryPost ==
  /\ C36_Returned
  /\ C36_Progress
  /\ api.status # "threw"

\* what holds of C36 for every server: a call that returns has requested
\* the pages in sequence and returns every post once, in order, and a call
\* in progress goes on
C36_ReturnedIsComplete == C36_Returned /\ C36_Progress

\* what holds of C36 against a server that answers the page after the last
\* post with an empty list: every call returns
C36_ReturnsFromEmptyList ==
  (api.status = "running" /\ api.server = "emptyList")
    ~> (api.status = "returned")

\* against WordPress a call throws exactly when the total is a positive
\* multiple of perPage
C36_ThrowsOnFullLastPage ==
  /\ api.status = "threw" =>
       /\ api.server = "WordPress"
       /\ api.total > 0
       /\ api.total % perPage = 0
       /\ Len(api.requests) = (api.total \div perPage) + 1
  /\ (api.status = "returned" /\ api.server = "WordPress") =>
       (api.total = 0 \/ api.total % perPage # 0)

\* a call has returned every post of a site whose last page is full
C36_FullLastPageReturned ==
  /\ api.status = "returned"
  /\ api.total = 2 * perPage
  /\ Len(api.requests) = 3

\* a call has thrown on the page after the only, full page
C36_FullLastPageThrew ==
  /\ api.status = "threw"
  /\ api.total = perPage


====
